---- MODULE Spec2Model ----
(***************************************************************************)
(* Model of the inflection engine of EnglishStudyHelper                    *)
(* (src/src/english_inflections/english_inflections.py): the Inflector     *)
(* store built by __init__ from a TSV source, the Inflect* operations,     *)
(* Search and LookupPhraseInfo, and the suffix heuristics Generate*; and   *)
(* of two parts of the package src/src/englishstudyhelper: the Word        *)
(* record (word.py) and the base-form guesser of Dictionary                *)
(* (dictionary.py).                                                        *)
(*                                                                         *)
(* A string is a sequence of one-character strings, so that splitting,     *)
(* tokenising, joining and the suffix rules are computed character by      *)
(* character.  A Python dict is a sequence of <<key, value>> pairs in      *)
(* insertion order.  Costs are the integers the floats of the code take on *)
(* the sources drawn here.                                                 *)
(***************************************************************************)
EXTENDS Integers, Sequences, FiniteSets, TLC

VARIABLES
  pc,         \* "module" before an Inflector is built, "generated" after a Generate* call,
              \* "loading" while __init__ reads lines, "failed" if __init__ raised,
              \* "ready" once the object exists, "returned" after a call on it,
              \* "mutated" once the caller has changed the value LookupPhraseInfo returned
  source,     \* the lines of the data source that __init__ has read so far
  nread,      \* number of lines __init__ has read
  word_dict,  \* Inflector.word_dict: base form -> attribute dict
  index,      \* Inflector.index: surface form -> list of base forms
  op,         \* the last call made on the Inflector: [name, phrase, fbgen]
  ret,        \* what that call returned
  count,      \* Word.count
  examples,   \* Word.examples
  calls,      \* the constructor call and the method calls made on the Word, in order
  base_call,  \* the last call of Dictionary._get_base_form: [word, part_of_speech]
  base_form   \* what that call returned, or the exception it raised

inflector_vars == <<pc, source, nread, word_dict, index, op, ret>>
helper_vars == <<count, examples, calls, base_call, base_form>>
vars == <<pc, source, nread, word_dict, index, op, ret, count, examples, calls, base_call, base_form>>

(***************************************************************************)
(* Bounds                                                                  *)
(***************************************************************************)
\* number of lines of the data source
MaxLines == 2
\* length of the words handed to the Generate* functions
MaxWordLen == 3

(***************************************************************************)
(* Characters and strings                                                  *)
(***************************************************************************)
\* the characters in use, in code point order
Alphabet ==
  <<"\t", "\n", " ", ",", "-", "0", "3", "4", "5", "6", ":",
    "a", "b", "c", "d", "e", "f", "g", "h", "i", "j", "k", "l", "m",
    "n", "o", "p", "q", "r", "s", "t", "u", "v", "w", "x", "y", "z">>

Ord(c) == CHOOSE i \in 1..Len(Alphabet) : Alphabet[i] = c

Digits == {"0", "3", "4", "5", "6"}
Letters == {"a", "b", "c", "d", "e", "f", "g", "h", "i", "j", "k", "l", "m",
            "n", "o", "p", "q", "r", "s", "t", "u", "v", "w", "x", "y", "z"}
Whitespace == {"\t", "\n", " "}

\* \w of the re module
IsWordChar(c) == c \in Letters \cup Digits

\* str < str: lexicographic by code point, a proper prefix first
RECURSIVE StrLess(_, _)
StrLess(a, b) ==
  IF b = <<>> THEN FALSE
  ELSE IF a = <<>> THEN TRUE
  ELSE IF a[1] = b[1] THEN StrLess(Tail(a), Tail(b))
  ELSE Ord(a[1]) < Ord(b[1])

\* str.strip()
RECURSIVE LStrip(_)
LStrip(s) == IF s # <<>> /\ s[1] \in Whitespace THEN LStrip(Tail(s)) ELSE s
RECURSIVE RStrip(_)
RStrip(s) ==
  IF s # <<>> /\ s[Len(s)] \in Whitespace THEN RStrip(SubSeq(s, 1, Len(s) - 1)) ELSE s
Strip(s) == RStrip(LStrip(s))

\* str.split(sep) with a one-character separator
RECURSIVE Split(_, _)
Split(s, sep) ==
  IF \A i \in 1..Len(s) : s[i] # sep THEN <<s>>
  ELSE LET k == CHOOSE i \in 1..Len(s) : s[i] = sep /\ \A j \in 1..(i - 1) : s[j] # sep
       IN  <<SubSeq(s, 1, k - 1)>> \o Split(SubSeq(s, k + 1, Len(s)), sep)

\* sep.join(parts)
RECURSIVE Join(_, _)
Join(parts, sep) ==
  IF parts = <<>> THEN <<>>
  ELSE IF Len(parts) = 1 THEN parts[1]
  ELSE parts[1] \o <<sep>> \o Join(Tail(parts), sep)

\* [x for x in _re_word_boundary.split(phrase.strip()) if x]: the maximal runs of word characters
RECURSIVE TokenizeFrom(_, _, _)
TokenizeFrom(s, cur, acc) ==
  IF s = <<>> THEN (IF cur = <<>> THEN acc ELSE Append(acc, cur))
  ELSE IF IsWordChar(s[1]) THEN TokenizeFrom(Tail(s), Append(cur, s[1]), acc)
  ELSE TokenizeFrom(Tail(s), <<>>, IF cur = <<>> THEN acc ELSE Append(acc, cur))
Tokenize(phrase) == TokenizeFrom(Strip(phrase), <<>>, <<>>)

\* " ".join(tokens)
Canonical(phrase) == Join(Tokenize(phrase), " ")

\* float(value) on the values the sources hold: a run of digits is a number, any other text raises ValueError
IsFloat(value) == value # <<>> /\ \A i \in 1..Len(value) : value[i] \in Digits
DigitVal(c) == CASE c = "0" -> 0 [] c = "3" -> 3 [] c = "4" -> 4 [] c = "5" -> 5 [] c = "6" -> 6
RECURSIVE ParseFloat(_)
ParseFloat(value) ==
  IF Len(value) = 1 THEN DigitVal(value[1])
  ELSE 10 * ParseFloat(SubSeq(value, 1, Len(value) - 1)) + DigitVal(value[Len(value)])

(***************************************************************************)
(* Python dicts as insertion-ordered sequences of <<key, value>>           *)
(***************************************************************************)
DictKeys(d) == {d[i][1] : i \in 1..Len(d)}
DictHas(d, k) == k \in DictKeys(d)
DictGet(d, k) == d[CHOOSE i \in 1..Len(d) : d[i][1] = k][2]
\* d[k] = v: an existing key keeps its place
DictSet(d, k, v) ==
  IF DictHas(d, k) THEN [i \in 1..Len(d) |-> IF d[i][1] = k THEN <<k, v>> ELSE d[i]]
  ELSE Append(d, <<k, v>>)

(***************************************************************************)
(* Labels and the cost table                                               *)
(***************************************************************************)
np == <<"n", "p">>
vs == <<"v", "s">>
vc == <<"v", "c">>
vp == <<"v", "p">>
vx == <<"v", "x">>
ajc == <<"a", "j", "c">>
ajs == <<"a", "j", "s">>
avc == <<"a", "v", "c">>
avs == <<"a", "v", "s">>
a_label == <<"a">>
i_key == <<"i">>
o_key == <<"o">>
ph_key == <<"_", "p", "h">>
pi_key == <<"_", "p", "i">>
th_key == <<"_", "t", "h">>

_inflection_costs ==
  (np :> 1) @@ (vs :> 1) @@ (vc :> 1) @@ (vp :> 1) @@ (vx :> 1) @@
  (ajc :> 2) @@ (ajs :> 2) @@ (avc :> 2) @@ (avs :> 2) @@ (a_label :> 4)

(***************************************************************************)
(* Inflector.__init__: one line of the data source                         *)
(***************************************************************************)
\* The iteration order of set(infls) is fixed by the string hashes of the process, which differ
\* from one run to the next: the model lets a load iterate in ascending or in descending order.
HashOrders == {"ascending", "descending"}
\* list(set(infls)) under the given order
RECURSIVE SetToSeq(_, _)
SetToSeq(S, hash_order) ==
  IF S = {} THEN <<>>
  ELSE LET x == CHOOSE y \in S : \A z \in S \ {y} :
                  IF hash_order = "ascending" THEN StrLess(y, z) ELSE StrLess(z, y)
       IN  <<x>> \o SetToSeq(S \ {x}, hash_order)

\* self.index[infl].append(orig): a defaultdict creates the missing list
AppendToEntry(idx, infl, orig) ==
  (infl :> Append(IF infl \in DOMAIN idx THEN idx[infl] ELSE <<>>, orig)) @@ idx

\* "for infl in ..." over the listed forms from the j-th on
RECURSIVE IndexAppendFrom(_, _, _, _)
IndexAppendFrom(idx, order, j, orig) ==
  IF j > Len(order) THEN idx
  ELSE IndexAppendFrom(AppendToEntry(idx, order[j], orig), order, j + 1, orig)

\* the index with the surface form appended in place of the base form
IndexAppend_Surface(idx, infls, orig, hash_order) ==
  LET uniq == {infls[j] : j \in 1..Len(infls)}
  IN  [k \in DOMAIN idx \cup uniq |->
         IF k \in uniq THEN Append(IF k \in DOMAIN idx THEN idx[k] ELSE <<>>, k)
         ELSE idx[k]]
\* the index with only the form listed first appended to
IndexAppend_Head(idx, infls, orig, hash_order) == AppendToEntry(idx, infls[1], orig)
\* the index with only the form iterated first appended to
IndexAppend_FirstIterated(idx, infls, orig, hash_order) ==
  AppendToEntry(idx, SetToSeq({infls[j] : j \in 1..Len(infls)}, hash_order)[1], orig)

\* for infl in set(infls): self.index[infl].append(orig)
IndexAppend(idx, infls, orig, hash_order) ==
  IndexAppendFrom(idx, SetToSeq({infls[j] : j \in 1..Len(infls)}, hash_order), 1, orig)

\* the loop "for field in fields" from its k-th field on; raised is set when float(value) raises
RECURSIVE LoadFields(_, _, _, _, _, _)
LoadFields(fields, k, orig, attrs, idx, hash_order) ==
  IF k > Len(fields) THEN [attrs |-> attrs, index |-> idx, raised |-> FALSE]
  ELSE LET subfields == Split(fields[k], ":")
       IN  IF Len(subfields) # 2 THEN LoadFields(fields, k + 1, orig, attrs, idx, hash_order)
           ELSE LET label == subfields[1]
                    value == subfields[2]
                IN  IF label \in DOMAIN _inflection_costs
                    THEN LET infls == Split(value, ",")
                         IN  LoadFields(fields, k + 1, orig, DictSet(attrs, label, infls),
                                        IndexAppend(idx, infls, orig, hash_order), hash_order)
                    ELSE IF label = i_key
                    THEN IF IsFloat(value)
                         THEN LoadFields(fields, k + 1, orig,
                                         DictSet(attrs, i_key, ParseFloat(value)), idx, hash_order)
                         ELSE [attrs |-> attrs, index |-> idx, raised |-> TRUE]
                    ELSE LoadFields(fields, k + 1, orig, attrs, idx, hash_order)

\* the body of "for line in input_file"
LoadLineResult(line, wd, idx, hash_order) ==
  LET fields == Split(Strip(line), "\t")
  IN  IF Len(fields) < 2 THEN [word_dict |-> wd, index |-> idx, raised |-> FALSE]
      ELSE LET orig == fields[1]
               r == LoadFields(fields, 1, orig, <<>>, idx, hash_order)
           IN  IF r.raised THEN [word_dict |-> wd, index |-> r.index, raised |-> TRUE]
               ELSE [word_dict |-> (orig :> r.attrs) @@ wd, index |-> r.index, raised |-> FALSE]

\* __init__ run on a whole source: "for line in input_file" from the n-th line on
RECURSIVE LoadFrom(_, _, _, _, _)
LoadFrom(lines, n, wd, idx, hash_order) ==
  IF n > Len(lines) THEN [word_dict |-> wd, index |-> idx, raised |-> FALSE]
  ELSE LET r == LoadLineResult(lines[n], wd, idx, hash_order)
       IN  IF r.raised THEN r ELSE LoadFrom(lines, n + 1, r.word_dict, r.index, hash_order)
\* Inflector(data_path) on a source holding the given lines
Load(lines, hash_order) ==
  LoadFrom(lines, 1, [k \in {} |-> <<>>], [k \in {} |-> <<>>], hash_order)

(***************************************************************************)
(* Store access                                                            *)
(***************************************************************************)
\* self.word_dict.get(key) is a non-empty dict
HasRecord(key) == key \in DOMAIN word_dict
WordTruthy(key) == HasRecord(key) /\ word_dict[key] # <<>>
\* self.word_dict.get(key) or {}
WordAttrs(key) == IF HasRecord(key) THEN word_dict[key] ELSE <<>>
\* self.index.get(key) or []
IndexGet(key) == IF key \in DOMAIN index THEN index[key] ELSE <<>>
\* attrs.get("i") is a non-zero number
IdfTruthy(attrs) == DictHas(attrs, i_key) /\ DictGet(attrs, i_key) # 0
\* attrs.get("i") or 20
IdfOr20(attrs) == IF IdfTruthy(attrs) THEN DictGet(attrs, i_key) ELSE 20

(***************************************************************************)
(* Inflector.Search                                                        *)
(***************************************************************************)
Min(x, y) == IF x < y THEN x ELSE y

\* "for infl in value": the cost of the label at the first exact match, 0 when there is none
ScanValue(value, target, label_cost) ==
  IF \E j \in 1..Len(value) : value[j] = target
  THEN LET j == CHOOSE n \in 1..Len(value) : value[n] = target /\ \A m \in 1..(n - 1) : value[m] # target
       IN  label_cost + 3 * (j - 1)
  ELSE 0

\* "for key, value in base_attrs.items()" from the k-th item on
RECURSIVE ScanItems(_, _, _, _, _)
ScanItems(base_attrs, k, target, min_cost, form_labels) ==
  IF k > Len(base_attrs) THEN [min_cost |-> min_cost, form_labels |-> form_labels]
  ELSE LET key == base_attrs[k][1]
           value == base_attrs[k][2]
       IN  IF key \notin DOMAIN _inflection_costs
           THEN ScanItems(base_attrs, k + 1, target, min_cost, form_labels)
           ELSE LET c == ScanValue(value, target, _inflection_costs[key])
                IN  IF c = 0 THEN ScanItems(base_attrs, k + 1, target, min_cost, form_labels)
                    ELSE ScanItems(base_attrs, k + 1, target, Min(min_cost, c),
                                   Append(form_labels, key))

MatchLabels(base_attrs, target) == ScanItems(base_attrs, 1, target, 10, <<>>)

\* the sort key without the candidate string: x[1]
KeyLess_CostOnly(x, y) == x.cost < y.cost
\* the sort key with its parts exchanged: (x[0], x[1])
KeyLess_NameFirst(x, y) == StrLess(x.base, y.base) \/ (x.base = y.base /\ x.cost < y.cost)

\* the sort key (x[1], x[0])
KeyLess(x, y) == x.cost < y.cost \/ (x.cost = y.cost /\ StrLess(x.base, y.base))

\* sorted(matches, key=...): stable
RECURSIVE InsertSorted(_, _)
InsertSorted(sortedSeq, x) ==
  IF sortedSeq = <<>> THEN <<x>>
  ELSE IF KeyLess(x, sortedSeq[1]) THEN <<x>> \o sortedSeq
  ELSE <<sortedSeq[1]>> \o InsertSorted(Tail(sortedSeq), x)
RECURSIVE Sorted(_)
Sorted(matches) ==
  IF matches = <<>> THEN <<>>
  ELSE InsertSorted(Sorted(SubSeq(matches, 1, Len(matches) - 1)), matches[Len(matches)])

\* the loop without the test "if base in uniq_bases: continue"
RECURSIVE SearchPhraseLoop_NoUniq(_, _, _, _, _)
SearchPhraseLoop_NoUniq(bases, k, orig_phrase, matches, uniq_bases) ==
  IF k > Len(bases) THEN [matches |-> matches, uniq_bases |-> uniq_bases]
  ELSE LET base == bases[k]
       IN  IF ~WordTruthy(base)
           THEN SearchPhraseLoop_NoUniq(bases, k + 1, orig_phrase, matches, uniq_bases)
           ELSE LET base_attrs == word_dict[base]
                    m == MatchLabels(base_attrs, orig_phrase)
                IN  SearchPhraseLoop_NoUniq(bases, k + 1, orig_phrase,
                      Append(matches, [base |-> base, cost |-> IdfOr20(base_attrs) + m.min_cost,
                                       labels |-> m.form_labels]),
                      uniq_bases \cup {base})

\* "for base in self.index.get(orig_phrase) or []" from the k-th base on
RECURSIVE SearchPhraseLoop(_, _, _, _, _)
SearchPhraseLoop(bases, k, orig_phrase, matches, uniq_bases) ==
  IF k > Len(bases) THEN [matches |-> matches, uniq_bases |-> uniq_bases]
  ELSE LET base == bases[k]
       IN  IF base \in uniq_bases \/ ~WordTruthy(base)
           THEN SearchPhraseLoop(bases, k + 1, orig_phrase, matches, uniq_bases)
           ELSE LET base_attrs == word_dict[base]
                    m == MatchLabels(base_attrs, orig_phrase)
                IN  SearchPhraseLoop(bases, k + 1, orig_phrase,
                      Append(matches, [base |-> base, cost |-> IdfOr20(base_attrs) + m.min_cost,
                                       labels |-> m.form_labels]),
                      uniq_bases \cup {base})

\* "for base in bases" of the substitution step at token position i (1-based), from the k-th base on
RECURSIVE SearchTokenLoop(_, _, _, _, _, _)
SearchTokenLoop(bases, k, tokens, i, matches, uniq_bases) ==
  IF k > Len(bases) THEN [matches |-> matches, uniq_bases |-> uniq_bases]
  ELSE LET base == bases[k]
           base_phrase == Join([tokens EXCEPT ![i] = base], " ")
       IN  IF base_phrase \in uniq_bases \/ ~WordTruthy(base)
           THEN SearchTokenLoop(bases, k + 1, tokens, i, matches, uniq_bases)
           ELSE LET base_attrs == word_dict[base]
                    m == MatchLabels(base_attrs, tokens[i])
                IN  SearchTokenLoop(bases, k + 1, tokens, i,
                      Append(matches, [base |-> base_phrase,
                                       cost |-> IdfOr20(base_attrs) + 20 + m.min_cost,
                                       labels |-> m.form_labels]),
                      uniq_bases \cup {base_phrase})

\* "while i < len(tokens)" from position i (1-based) on
RECURSIVE SearchPositions(_, _, _, _)
SearchPositions(tokens, i, matches, uniq_bases) ==
  IF i > Len(tokens) THEN matches
  ELSE LET r == SearchTokenLoop(<<tokens[i]>> \o IndexGet(tokens[i]), 1, tokens, i,
                                matches, uniq_bases)
       IN  SearchPositions(tokens, i + 1, r.matches, r.uniq_bases)

\* the whole-phrase steps with a candidate for the phrase whether it is a base form or not
PhraseMatches_Always(phrase) ==
  LET orig_phrase == Canonical(phrase)
      first == <<[base |-> orig_phrase, cost |-> IdfOr20(WordAttrs(orig_phrase)),
                  labels |-> <<o_key>>]>>
  IN  SearchPhraseLoop(IndexGet(orig_phrase), 1, orig_phrase, first, {orig_phrase})

\* the candidates of the whole-phrase steps, before sorting
PhraseMatches(phrase) ==
  LET orig_phrase == Canonical(phrase)
      first == IF WordTruthy(orig_phrase)
               THEN <<[base |-> orig_phrase, cost |-> IdfOr20(word_dict[orig_phrase]),
                       labels |-> <<o_key>>]>>
               ELSE <<>>
  IN  SearchPhraseLoop(IndexGet(orig_phrase), 1, orig_phrase, first, {orig_phrase})

Search(phrase) ==
  LET tokens == Tokenize(phrase)
      r == PhraseMatches(phrase)
      matches == Sorted(r.matches)
  IN  IF matches = <<>> /\ Len(tokens) > 1
      THEN Sorted(SearchPositions(tokens, 1, matches, r.uniq_bases))
      ELSE Sorted(matches)

\* the index left by self.index[key], which makes a defaultdict create an entry for a missing key
IndexAfterGet_Subscript(idx, key) == IF key \in DOMAIN idx THEN idx ELSE (key :> <<>>) @@ idx

\* the index left by self.index.get(key): get creates no entry in a defaultdict
IndexAfterGet(idx, key) == idx

\* the index after self.index.get(token) for the tokens from the k-th on
RECURSIVE IndexAfterGets(_, _, _)
IndexAfterGets(idx, tokens, k) ==
  IF k > Len(tokens) THEN idx ELSE IndexAfterGets(IndexAfterGet(idx, tokens[k]), tokens, k + 1)

\* self.index once Search(phrase) has returned: the reads at lines 174 and 197
SearchIndexAfter(phrase) ==
  LET tokens == Tokenize(phrase)
      idx == IndexAfterGet(index, Canonical(phrase))
  IN  IF Sorted(PhraseMatches(phrase).matches) = <<>> /\ Len(tokens) > 1
      THEN IndexAfterGets(idx, tokens, 1)
      ELSE idx

\* Inflector.LookupPhraseInfo: the copy of the record, or None
LookupPhraseInfo(phrase) ==
  IF WordTruthy(phrase) THEN [found |-> TRUE, attrs |-> word_dict[phrase]]
  ELSE [found |-> FALSE, attrs |-> <<>>]

(***************************************************************************)
(* The suffix patterns _re_ending_* and the generators Generate*           *)
(***************************************************************************)
\* matching without (?i)
Lower_CaseSensitive(c) == c
\* (?i): the lower-case form of a character
Lower(c) ==
  CASE c = "A" -> "a" [] c = "E" -> "e" [] c = "F" -> "f" [] c = "S" -> "s"
    [] c = "T" -> "t" [] c = "Y" -> "y" [] OTHER -> c

Vowels == {"a", "e", "i", "o", "u"}
IsVowel(c) == Lower(c) \in Vowels
\* [^aeiouyx]
IsPlainConsonant(c) == Lower(c) \notin (Vowels \cup {"y", "x"})

\* the positions where $ matches: the end of the string, and just before a final newline
EndPoints(word) ==
  {Len(word)} \cup (IF word # <<>> /\ word[Len(word)] = "\n" THEN {Len(word) - 1} ELSE {})

\* the text, lower-cased, ends at position e with the characters of suffix
EndsWithAt(word, e, suffix) ==
  /\ e >= Len(suffix)
  /\ \A j \in 1..Len(suffix) : Lower(word[e - Len(suffix) + j]) = suffix[j]
EndsWith(word, suffix) == \E e \in EndPoints(word) : EndsWithAt(word, e, suffix)

\* _re_ending_f = (fe|f)$
_re_ending_f(word) == EndsWith(word, <<"f", "e">>) \/ EndsWith(word, <<"f">>)
\* _re_ending_spirant = (o|s|ch|sh|x)$
_re_ending_spirant(word) ==
  \/ EndsWith(word, <<"o">>) \/ EndsWith(word, <<"s">>) \/ EndsWith(word, <<"c", "h">>)
  \/ EndsWith(word, <<"s", "h">>) \/ EndsWith(word, <<"x">>)
\* _re_ending_vowel_y = [aeiou]y$
_re_ending_vowel_y(word) ==
  \E e \in EndPoints(word) : e >= 2 /\ IsVowel(word[e - 1]) /\ Lower(word[e]) = "y"
\* _re_ending_y = y$
_re_ending_y(word) == EndsWith(word, <<"y">>)
\* _re_ending_ie = ie$
_re_ending_ie(word) == EndsWith(word, <<"i", "e">>)
\* _re_ending_e = e$
_re_ending_e(word) == EndsWith(word, <<"e">>)
\* _re_ending_long_vowel_consonant = [aeiou]{2,}[^aeiouyx]$
_re_ending_long_vowel_consonant(word) ==
  \E e \in EndPoints(word) :
    e >= 3 /\ IsVowel(word[e - 2]) /\ IsVowel(word[e - 1]) /\ IsPlainConsonant(word[e])
\* _re_ending_short_vowel_consonant = [aeiou][^aeiouyx]$
_re_ending_short_vowel_consonant(word) ==
  \E e \in EndPoints(word) : e >= 2 /\ IsVowel(word[e - 1]) /\ IsPlainConsonant(word[e])

\* word[:-n]
DropLast(word, n) == SubSeq(word, 1, Len(word) - n)
\* word[-1]
LastChar(word) == <<word[Len(word)]>>

\* _re_ending_f.sub("ves", word): the leftmost match, which reaches the earliest $ position, is replaced
SubEndingF(word) ==
  LET e == CHOOSE x \in EndPoints(word) :
             /\ EndsWithAt(word, x, <<"f", "e">>) \/ EndsWithAt(word, x, <<"f">>)
             /\ \A y \in EndPoints(word) :
                  (EndsWithAt(word, y, <<"f", "e">>) \/ EndsWithAt(word, y, <<"f">>)) => x <= y
      n == IF EndsWithAt(word, e, <<"f", "e">>) THEN 2 ELSE 1
  IN  SubSeq(word, 1, e - n) \o <<"v", "e", "s">> \o SubSeq(word, e + 1, Len(word))

\* the generator with the y rule tried before the vowel + y rule
GenerateNounPlural_YFirst(word) ==
  IF _re_ending_f(word) THEN SubEndingF(word)
  ELSE IF _re_ending_spirant(word) THEN word \o <<"e", "s">>
  ELSE IF _re_ending_y(word) THEN DropLast(word, 1) \o <<"i", "e", "s">>
  ELSE IF _re_ending_vowel_y(word) THEN word \o <<"s">>
  ELSE word \o <<"s">>

GenerateNounPlural(word) ==
  IF _re_ending_f(word) THEN SubEndingF(word)
  ELSE IF _re_ending_spirant(word) THEN word \o <<"e", "s">>
  ELSE IF _re_ending_vowel_y(word) THEN word \o <<"s">>
  ELSE IF _re_ending_y(word) THEN DropLast(word, 1) \o <<"i", "e", "s">>
  ELSE word \o <<"s">>

\* the generator without the vowel + y rule
GenerateVerbSingular_NoVowelY(word) ==
  IF _re_ending_spirant(word) THEN word \o <<"e", "s">>
  ELSE IF _re_ending_y(word) THEN DropLast(word, 1) \o <<"i", "e", "s">>
  ELSE word \o <<"s">>

GenerateVerbSingular(word) ==
  IF _re_ending_spirant(word) THEN word \o <<"e", "s">>
  ELSE IF _re_ending_vowel_y(word) THEN word \o <<"s">>
  ELSE IF _re_ending_y(word) THEN DropLast(word, 1) \o <<"i", "e", "s">>
  ELSE word \o <<"s">>

\* the generator with the short-vowel rule tried before the long-vowel rule
GenerateVerbPresentParticiple_ShortFirst(word) ==
  IF _re_ending_ie(word) THEN DropLast(word, 2) \o <<"y", "i", "n", "g">>
  ELSE IF _re_ending_e(word) THEN DropLast(word, 1) \o <<"i", "n", "g">>
  ELSE IF _re_ending_short_vowel_consonant(word) THEN word \o LastChar(word) \o <<"i", "n", "g">>
  ELSE IF _re_ending_long_vowel_consonant(word) THEN word \o <<"i", "n", "g">>
  ELSE word \o <<"i", "n", "g">>

GenerateVerbPresentParticiple(word) ==
  IF _re_ending_ie(word) THEN DropLast(word, 2) \o <<"y", "i", "n", "g">>
  ELSE IF _re_ending_e(word) THEN DropLast(word, 1) \o <<"i", "n", "g">>
  ELSE IF _re_ending_long_vowel_consonant(word) THEN word \o <<"i", "n", "g">>
  ELSE IF _re_ending_short_vowel_consonant(word) THEN word \o LastChar(word) \o <<"i", "n", "g">>
  ELSE word \o <<"i", "n", "g">>

\* the generator without the vowel + y rule
GenerateVerbPast_NoVowelY(word) ==
  IF _re_ending_y(word) THEN DropLast(word, 1) \o <<"i", "e", "d">>
  ELSE IF _re_ending_long_vowel_consonant(word) THEN word \o <<"e", "d">>
  ELSE IF _re_ending_short_vowel_consonant(word) THEN word \o LastChar(word) \o <<"e", "d">>
  ELSE IF _re_ending_e(word) THEN word \o <<"d">>
  ELSE word \o <<"e", "d">>

GenerateVerbPast(word) ==
  IF _re_ending_vowel_y(word) THEN word \o <<"e", "d">>
  ELSE IF _re_ending_y(word) THEN DropLast(word, 1) \o <<"i", "e", "d">>
  ELSE IF _re_ending_long_vowel_consonant(word) THEN word \o <<"e", "d">>
  ELSE IF _re_ending_short_vowel_consonant(word) THEN word \o LastChar(word) \o <<"e", "d">>
  ELSE IF _re_ending_y(word) THEN DropLast(word, 1) \o <<"i", "e", "d">>
  ELSE IF _re_ending_e(word) THEN word \o <<"d">>
  ELSE word \o <<"e", "d">>

GenerateVerbPastParticiple(word) == GenerateVerbPast(word)

\* the generator without the rule for a final e
GenerateAdjectiveComparative_NoE(word) ==
  IF _re_ending_vowel_y(word) THEN word \o <<"e", "r">>
  ELSE IF _re_ending_y(word) THEN DropLast(word, 1) \o <<"i", "e", "r">>
  ELSE IF _re_ending_long_vowel_consonant(word) THEN word \o <<"e", "r">>
  ELSE IF _re_ending_short_vowel_consonant(word) THEN word \o LastChar(word) \o <<"e", "r">>
  ELSE word \o <<"e", "r">>

GenerateAdjectiveComparative(word) ==
  IF _re_ending_vowel_y(word) THEN word \o <<"e", "r">>
  ELSE IF _re_ending_y(word) THEN DropLast(word, 1) \o <<"i", "e", "r">>
  ELSE IF _re_ending_long_vowel_consonant(word) THEN word \o <<"e", "r">>
  ELSE IF _re_ending_short_vowel_consonant(word) THEN word \o LastChar(word) \o <<"e", "r">>
  ELSE IF _re_ending_y(word) THEN DropLast(word, 1) \o <<"i", "e", "r">>
  ELSE IF _re_ending_e(word) THEN word \o <<"r">>
  ELSE word \o <<"e", "r">>

GenerateAdjectiveSuperative(word) ==
  IF _re_ending_vowel_y(word) THEN word \o <<"e", "s", "t">>
  ELSE IF _re_ending_y(word) THEN DropLast(word, 1) \o <<"i", "e", "s", "t">>
  ELSE IF _re_ending_long_vowel_consonant(word) THEN word \o <<"e", "s", "t">>
  ELSE IF _re_ending_short_vowel_consonant(word) THEN word \o LastChar(word) \o <<"e", "s", "t">>
  ELSE IF _re_ending_y(word) THEN DropLast(word, 1) \o <<"i", "e", "s", "t">>
  ELSE IF _re_ending_e(word) THEN word \o <<"s", "t">>
  ELSE word \o <<"e", "s", "t">>

GenerateAdverbComparative(word) == GenerateAdjectiveComparative(word)
GenerateAdverbSuperative(word) == GenerateAdjectiveSuperative(word)

\* generator(base_token) for the generator an op names
Generate(generator, word) ==
  CASE generator = "GenerateNounPlural" -> GenerateNounPlural(word)
    [] generator = "GenerateVerbSingular" -> GenerateVerbSingular(word)
    [] generator = "GenerateVerbPresentParticiple" -> GenerateVerbPresentParticiple(word)
    [] generator = "GenerateVerbPast" -> GenerateVerbPast(word)
    [] generator = "GenerateVerbPastParticiple" -> GenerateVerbPastParticiple(word)
    [] generator = "GenerateAdjectiveComparative" -> GenerateAdjectiveComparative(word)
    [] generator = "GenerateAdjectiveSuperative" -> GenerateAdjectiveSuperative(word)
    [] generator = "GenerateAdverbComparative" -> GenerateAdverbComparative(word)
    [] generator = "GenerateAdverbSuperative" -> GenerateAdverbSuperative(word)

(***************************************************************************)
(* Inflector._InflectImpl and the operations built on it                   *)
(***************************************************************************)
\* the noun op with the first token as its focus
NounOps_First == <<[position |-> 0, label |-> np, generator |-> "GenerateNounPlural"]>>

NounOps == <<[position |-> -1, label |-> np, generator |-> "GenerateNounPlural"]>>
VerbOps ==
  <<[position |-> 0, label |-> vs, generator |-> "GenerateVerbSingular"],
    [position |-> 0, label |-> vc, generator |-> "GenerateVerbPresentParticiple"],
    [position |-> 0, label |-> vp, generator |-> "GenerateVerbPast"],
    [position |-> 0, label |-> vx, generator |-> "GenerateVerbPastParticiple"]>>
AdjectiveOps ==
  <<[position |-> 0, label |-> ajc, generator |-> "GenerateAdjectiveComparative"],
    [position |-> 0, label |-> ajs, generator |-> "GenerateAdjectiveSuperative"]>>
AdverbOps ==
  <<[position |-> -1, label |-> avc, generator |-> "GenerateAdverbComparative"],
    [position |-> -1, label |-> avs, generator |-> "GenerateAdverbSuperative"]>>
AllOps ==
  <<NounOps[1], VerbOps[1], VerbOps[2], VerbOps[3], VerbOps[4],
    AdjectiveOps[1], AdjectiveOps[2], AdverbOps[1], AdverbOps[2]>>

\* the generators kept whatever fbgen is
WithFbgen_Keep(ops, fbgen) == ops

\* ops = [(x[0], x[1], None) for x in ops] when fbgen is false
WithFbgen(ops, fbgen) ==
  IF fbgen THEN ops
  ELSE [k \in 1..Len(ops) |-> [position |-> ops[k].position, label |-> ops[k].label,
                               generator |-> "None"]]

\* the first loop "for _, label, _ in ops" from the k-th op on
RECURSIVE PhraseLevel(_, _, _, _, _)
PhraseLevel(ops, k, dict_attrs, out_attrs, phrase_labels) ==
  IF k > Len(ops) THEN [out_attrs |-> out_attrs, phrase_labels |-> phrase_labels]
  ELSE LET label == ops[k].label
       IN  IF DictHas(dict_attrs, label) /\ DictGet(dict_attrs, label) # <<>>
           THEN PhraseLevel(ops, k + 1, dict_attrs,
                            DictSet(out_attrs, label, DictGet(dict_attrs, label)),
                            Append(phrase_labels, label))
           ELSE PhraseLevel(ops, k + 1, dict_attrs, out_attrs, phrase_labels)

\* the range test with the check of a position counted from the front left out
InRange_NoFrontCheck(position, tokens) ==
  IF position >= 0 THEN TRUE ELSE -position <= Len(tokens)

\* the position is inside the token list
InRange(position, tokens) ==
  IF position >= 0 THEN position < Len(tokens) ELSE -position <= Len(tokens)
\* the 1-based place of tokens[position]
Place(position, tokens) == IF position >= 0 THEN position + 1 ELSE Len(tokens) + position + 1

\* what a call hands back when tokens[position] raises IndexError instead of returning
IndexError == <<<<<<"!">>, <<"I", "n", "d", "e", "x", "E", "r", "r", "o", "r">>>>>>

\* the second loop "for position, label, generator in ops" from the k-th op on
RECURSIVE TokenLevel(_, _, _, _, _)
TokenLevel(ops, k, tokens, out_attrs, token_labels) ==
  IF k > Len(ops) THEN [out_attrs |-> out_attrs, token_labels |-> token_labels, raised |-> FALSE]
  ELSE LET position == ops[k].position
           label == ops[k].label
           generator == ops[k].generator
       IN  IF ~InRange(position, tokens)
           THEN TokenLevel(ops, k + 1, tokens, out_attrs, token_labels)
           ELSE IF Place(position, tokens) \notin 1..Len(tokens)
           THEN [out_attrs |-> out_attrs, token_labels |-> token_labels, raised |-> TRUE]
           ELSE LET at == Place(position, tokens)
                    base_token == tokens[at]
                    dict_attrs == WordAttrs(base_token)
                IN  IF DictHas(dict_attrs, label) /\ DictGet(dict_attrs, label) # <<>>
                    THEN LET dict_values == DictGet(dict_attrs, label)
                             mod_phrases ==
                               [j \in 1..Len(dict_values) |->
                                  Join([tokens EXCEPT ![at] = dict_values[j]], " ")]
                         IN  TokenLevel(ops, k + 1, tokens, DictSet(out_attrs, label, mod_phrases),
                                        Append(token_labels, label))
                    ELSE IF generator = "None"
                    THEN TokenLevel(ops, k + 1, tokens, out_attrs, token_labels)
                    ELSE LET mod_phrases ==
                               <<Join([tokens EXCEPT ![at] = Generate(generator, base_token)], " ")>>
                         IN  TokenLevel(ops, k + 1, tokens, DictSet(out_attrs, label, mod_phrases),
                                        token_labels)

_InflectImpl(phrase, ops) ==
  LET tokens == Tokenize(phrase)
      orig_phrase == Join(tokens, " ")
      dict_attrs == WordAttrs(orig_phrase)
      p == PhraseLevel(ops, 1, dict_attrs, <<<<o_key, orig_phrase>>>>, <<>>)
      out1 == IF p.phrase_labels # <<>> THEN DictSet(p.out_attrs, ph_key, p.phrase_labels)
              ELSE p.out_attrs
      out2 == IF IdfTruthy(dict_attrs) THEN DictSet(out1, pi_key, DictGet(dict_attrs, i_key))
              ELSE out1
  IN  IF Len(p.phrase_labels) = Len(ops) THEN out2
      ELSE LET t == TokenLevel(ops, 1, tokens, out2, <<>>)
           IN  IF t.raised THEN IndexError
               ELSE IF t.token_labels # <<>> THEN DictSet(t.out_attrs, th_key, t.token_labels)
               ELSE t.out_attrs

InflectNoun(phrase, fbgen) == _InflectImpl(phrase, WithFbgen(NounOps, fbgen))
InflectVerb(phrase, fbgen) == _InflectImpl(phrase, WithFbgen(VerbOps, fbgen))
InflectAdjective(phrase, fbgen) == _InflectImpl(phrase, WithFbgen(AdjectiveOps, fbgen))
InflectAdverb(phrase, fbgen) == _InflectImpl(phrase, WithFbgen(AdverbOps, fbgen))
Inflect(phrase, fbgen) == _InflectImpl(phrase, WithFbgen(AllOps, fbgen))

(***************************************************************************)
(* The data sources and the phrases callers ask about                      *)
(***************************************************************************)
\* "dog\ti:5\tnp:dogs"
Line_dog == <<"d", "o", "g", "\t", "i", ":", "5", "\t", "n", "p", ":", "d", "o", "g", "s">>
\* "big dog\tnp:big dogz"
Line_big_dog == <<"b", "i", "g", " ", "d", "o", "g", "\t", "n", "p", ":", "b", "i", "g", " ", "d", "o", "g", "z">>
\* "big\tajc:bigger"
Line_big == <<"b", "i", "g", "\t", "a", "j", "c", ":", "b", "i", "g", "g", "e", "r">>
\* "run\ti:3\tvc:running"
Line_run == <<"r", "u", "n", "\t", "i", ":", "3", "\t", "v", "c", ":", "r", "u", "n", "n", "i", "n", "g">>
\* "go\tvx:gone,went\tajc:went"
Line_go == <<"g", "o", "\t", "v", "x", ":", "g", "o", "n", "e", ",", "w", "e", "n", "t", "\t", "a", "j", "c", ":", "w", "e", "n", "t">>
\* "sheep\tnp:sheep"
Line_sheep == <<"s", "h", "e", "e", "p", "\t", "n", "p", ":", "s", "h", "e", "e", "p">>
\* "cat\ti:0\tnp:cats"
Line_cat == <<"c", "a", "t", "\t", "i", ":", "0", "\t", "n", "p", ":", "c", "a", "t", "s">>
\* "emp\tnp:a:b\tzz:q"
Line_emp == <<"e", "m", "p", "\t", "n", "p", ":", "a", ":", "b", "\t", "z", "z", ":", "q">>
\* "dogs\ti:6"
Line_dogs == <<"d", "o", "g", "s", "\t", "i", ":", "6">>
\* "x-ray\tnp:x-rays"
Line_x_ray == <<"x", "-", "r", "a", "y", "\t", "n", "p", ":", "x", "-", "r", "a", "y", "s">>
\* "dog\tvs:dogs"
Line_dog_vs == <<"d", "o", "g", "\t", "v", "s", ":", "d", "o", "g", "s">>
\* "ax\ta:axa"
Line_ax == <<"a", "x", "\t", "a", ":", "a", "x", "a">>
\* "bad\ti:x\tnp:bads"
Line_bad == <<"b", "a", "d", "\t", "i", ":", "x", "\t", "n", "p", ":", "b", "a", "d", "s">>
\* "far\ti:4\tavc:farther,further,farer,fur"
Line_far == <<"f", "a", "r", "\t", "i", ":", "4", "\t", "a", "v", "c", ":", "f", "a", "r", "t", "h", "e", "r", ",", "f", "u", "r", "t", "h", "e", "r", ",", "f", "a", "r", "e", "r", ",", "f", "u", "r">>
\* "dog\tnp:dogs\tnp:dogz"
Line_dog_twice == <<"d", "o", "g", "\t", "n", "p", ":", "d", "o", "g", "s", "\t", "n", "p", ":", "d", "o", "g", "z">>
\* "lone"
Line_lone == <<"l", "o", "n", "e">>

\* the lines a data source is made of
SourceLines ==
  {Line_dog, Line_big_dog, Line_big, Line_run, Line_go, Line_sheep, Line_cat, Line_emp,
   Line_dogs, Line_x_ray, Line_dog_vs, Line_ax, Line_bad, Line_far,
   Line_dog_twice, Line_lone}

\* "dog"
P_dog == <<"d", "o", "g">>
\* "dogs"
P_dogs == <<"d", "o", "g", "s">>
\* "big dog"
P_big_dog == <<"b", "i", "g", " ", "d", "o", "g">>
\* "big dogs"
P_big_dogs == <<"b", "i", "g", " ", "d", "o", "g", "s">>
\* "big dogz"
P_big_dogz == <<"b", "i", "g", " ", "d", "o", "g", "z">>
\* "big-dog"
P_big_dog_hyphen == <<"b", "i", "g", "-", "d", "o", "g">>
\* "bigger"
P_bigger == <<"b", "i", "g", "g", "e", "r">>
\* "run"
P_run == <<"r", "u", "n">>
\* "running"
P_running == <<"r", "u", "n", "n", "i", "n", "g">>
\* "went"
P_went == <<"w", "e", "n", "t">>
\* "gone"
P_gone == <<"g", "o", "n", "e">>
\* "sheep"
P_sheep == <<"s", "h", "e", "e", "p">>
\* "big sheep"
P_big_sheep == <<"b", "i", "g", " ", "s", "h", "e", "e", "p">>
\* "cat"
P_cat == <<"c", "a", "t">>
\* "cats"
P_cats == <<"c", "a", "t", "s">>
\* "emp"
P_emp == <<"e", "m", "p">>
\* "x-ray"
P_x_ray == <<"x", "-", "r", "a", "y">>
\* "x-rays"
P_x_rays == <<"x", "-", "r", "a", "y", "s">>
\* "axa"
P_axa == <<"a", "x", "a">>
\* "zy"
P_zy == <<"z", "y">>
\* "zy fe"
P_zy_fe == <<"z", "y", " ", "f", "e">>
\* "fur"
P_fur == <<"f", "u", "r">>
\* "further"
P_further == <<"f", "u", "r", "t", "h", "e", "r">>
\* "bigger dogs"
P_bigger_dogs == <<"b", "i", "g", "g", "e", "r", " ", "d", "o", "g", "s">>
\* "go far"
P_go_far == <<"g", "o", " ", "f", "a", "r">>
\* ""
P_empty == <<>>
\* "-"
P_hyphen == <<"-">>

\* the phrases passed to the operations
Phrases ==
  {P_dog, P_dogs, P_big_dog, P_big_dogs, P_big_dogz, P_big_dog_hyphen, P_bigger, P_run,
   P_running, P_went, P_gone, P_sheep, P_big_sheep, P_cat, P_cats, P_emp, P_x_ray, P_x_rays,
   P_axa, P_zy, P_zy_fe, P_fur, P_further,
   P_bigger_dogs, P_go_far, P_empty, P_hyphen}

\* the characters of the words handed to the Generate* functions
GenAlphabet == {"e", "i", "o", "c", "f", "h", "s", "t", "x", "y", "E", "T", "Y"}
\* the words the documentation quotes, most of them among the base_phrases of _RunTest
W_box == <<"b", "o", "x">>
W_city == <<"c", "i", "t", "y">>
W_knife == <<"k", "n", "i", "f", "e">>
W_run == <<"r", "u", "n">>
W_smile == <<"s", "m", "i", "l", "e">>
W_play == <<"p", "l", "a", "y">>
W_cry == <<"c", "r", "y">>
W_tall == <<"t", "a", "l", "l">>
W_happy == <<"h", "a", "p", "p", "y">>
\* strings that are not words: punctuation only, and a word still carrying its line end
W_hyphen == <<"-">>
W_y_newline == <<"y", "\n">>
\* the arguments of the Generate* functions
Words ==
  UNION {[1..n -> GenAlphabet] : n \in 0..MaxWordLen}
    \cup {W_box, W_city, W_knife, W_run, W_smile, W_play, W_cry, W_tall, W_happy}
    \cup {W_hyphen, W_y_newline}

\* the changes a caller makes to the dict LookupPhraseInfo returned
MutationKinds == {"add_key", "del_key", "append", "overwrite", "pop"}
\* the list after value.append("q"), value[0] = "q" or value.pop()
MutatedList(value, kind) ==
  CASE kind = "append" -> Append(value, <<"q">>)
    [] kind = "overwrite" -> [value EXCEPT ![1] = <<"q">>]
    [] kind = "pop" -> SubSeq(value, 1, Len(value) - 1)

(***************************************************************************)
(* The state machine                                                       *)
(***************************************************************************)
NoCall == [name |-> "none", phrase |-> <<>>, fbgen |-> FALSE]
NoBaseCall == [word |-> <<>>, part_of_speech |-> "none"]
NoBaseForm == [raised |-> FALSE, value |-> <<>>]

Init ==
  /\ pc = "module"
  /\ source = <<>>
  /\ nread = 0
  /\ word_dict = [k \in {} |-> <<>>]
  /\ index = [k \in {} |-> <<>>]
  /\ op = NoCall
  /\ ret = <<>>
  /\ count = 0
  /\ examples = <<>>
  /\ calls = <<>>
  /\ base_call = NoBaseCall
  /\ base_form = NoBaseForm

\* a module-level Generate* function is called on a word
CallGenerate(generator) ==
  /\ pc = "module"
  /\ pc' = "generated"
  /\ \E word \in Words :
       /\ op' = [name |-> generator, phrase |-> word, fbgen |-> FALSE]
       /\ ret' = Generate(generator, word)
  /\ UNCHANGED <<source, nread, word_dict, index>>
  /\ UNCHANGED helper_vars

CallGenerateNounPlural == CallGenerate("GenerateNounPlural")
CallGenerateVerbSingular == CallGenerate("GenerateVerbSingular")
CallGenerateVerbPresentParticiple == CallGenerate("GenerateVerbPresentParticiple")
CallGenerateVerbPast == CallGenerate("GenerateVerbPast")
CallGenerateVerbPastParticiple == CallGenerate("GenerateVerbPastParticiple")
CallGenerateAdjectiveComparative == CallGenerate("GenerateAdjectiveComparative")
CallGenerateAdjectiveSuperative == CallGenerate("GenerateAdjectiveSuperative")
CallGenerateAdverbComparative == CallGenerate("GenerateAdverbComparative")
CallGenerateAdverbSuperative == CallGenerate("GenerateAdverbSuperative")

\* the caller is done with the generated form
ReturnGenerated ==
  /\ pc = "generated"
  /\ pc' = "module"
  /\ op' = NoCall
  /\ ret' = <<>>
  /\ UNCHANGED <<source, nread, word_dict, index>>
  /\ UNCHANGED helper_vars

\* Inflector(data_path) is entered: the empty word_dict and index exist and the source is open
Construct ==
  /\ pc = "module"
  /\ pc' = "loading"
  /\ UNCHANGED <<source, nread, word_dict, index, op, ret>>
  /\ UNCHANGED helper_vars

\* __init__ reads the next line of the source
LoadLine ==
  /\ pc = "loading"
  /\ nread < MaxLines
  /\ \E line \in SourceLines, hash_order \in HashOrders :
       LET r == LoadLineResult(line, word_dict, index, hash_order)
       IN  /\ pc' = IF r.raised THEN "failed" ELSE "loading"
           /\ source' = Append(source, line)
           /\ word_dict' = r.word_dict
           /\ index' = r.index
  /\ nread' = nread + 1
  /\ UNCHANGED <<op, ret>>
  /\ UNCHANGED helper_vars

\* __init__ reaches the end of the source and returns
LoadDone ==
  /\ pc = "loading"
  /\ pc' = "ready"
  /\ UNCHANGED <<source, nread, word_dict, index, op, ret>>
  /\ UNCHANGED helper_vars

Call(name, phrase, fbgen, result) ==
  /\ pc = "ready"
  /\ pc' = "returned"
  /\ op' = [name |-> name, phrase |-> phrase, fbgen |-> fbgen]
  /\ ret' = result
  /\ UNCHANGED <<source, nread, word_dict>>
  /\ UNCHANGED helper_vars

CallSearch ==
  \E phrase \in Phrases :
    /\ Call("Search", phrase, FALSE, Search(phrase))
    /\ index' = SearchIndexAfter(phrase)
CallLookupPhraseInfo ==
  \E phrase \in Phrases :
    /\ Call("LookupPhraseInfo", phrase, FALSE, LookupPhraseInfo(phrase))
    /\ UNCHANGED index
CallInflectNoun ==
  \E phrase \in Phrases, fbgen \in BOOLEAN :
    /\ Call("InflectNoun", phrase, fbgen, InflectNoun(phrase, fbgen))
    /\ UNCHANGED index
CallInflectVerb ==
  \E phrase \in Phrases, fbgen \in BOOLEAN :
    /\ Call("InflectVerb", phrase, fbgen, InflectVerb(phrase, fbgen))
    /\ UNCHANGED index
CallInflectAdjective ==
  \E phrase \in Phrases, fbgen \in BOOLEAN :
    /\ Call("InflectAdjective", phrase, fbgen, InflectAdjective(phrase, fbgen))
    /\ UNCHANGED index
CallInflectAdverb ==
  \E phrase \in Phrases, fbgen \in BOOLEAN :
    /\ Call("InflectAdverb", phrase, fbgen, InflectAdverb(phrase, fbgen))
    /\ UNCHANGED index
CallInflect ==
  \E phrase \in Phrases, fbgen \in BOOLEAN :
    /\ Call("Inflect", phrase, fbgen, Inflect(phrase, fbgen))
    /\ UNCHANGED index

\* The caller changes the dict that LookupPhraseInfo returned.  attrs.copy() is a new dict whose
\* values are the objects of the record: a key added to or deleted from the copy stays in the
\* copy, a change made to a list value is made to the list of the record.
MutateReturned ==
  /\ pc = "returned"
  /\ op.name = "LookupPhraseInfo"
  /\ ret.found
  /\ pc' = "mutated"
  /\ \E kind \in MutationKinds :
       \/ /\ kind = "add_key"
          /\ ret' = [ret EXCEPT !.attrs = DictSet(@, <<"z">>, <<>>)]
          /\ UNCHANGED word_dict
       \/ /\ kind = "del_key"
          /\ ret' = [ret EXCEPT !.attrs = Tail(@)]
          /\ UNCHANGED word_dict
       \/ /\ kind \in {"append", "overwrite", "pop"}
          /\ \E k \in 1..Len(ret.attrs) :
               /\ ret.attrs[k][1] \in DOMAIN _inflection_costs
               /\ LET label == ret.attrs[k][1]
                      value == MutatedList(ret.attrs[k][2], kind)
                  IN  /\ ret' = [ret EXCEPT !.attrs = DictSet(@, label, value)]
                      /\ word_dict' = [word_dict EXCEPT ![op.phrase] = DictSet(@, label, value)]
  /\ UNCHANGED <<source, nread, index, op>>
  /\ UNCHANGED helper_vars

\* the caller is done with the result and may call again
Return ==
  /\ pc = "returned"
  /\ pc' = "ready"
  /\ op' = NoCall
  /\ ret' = <<>>
  /\ UNCHANGED <<source, nread, word_dict, index>>
  /\ UNCHANGED helper_vars

Next ==
  \/ CallGenerateNounPlural
  \/ CallGenerateVerbSingular
  \/ CallGenerateVerbPresentParticiple
  \/ CallGenerateVerbPast
  \/ CallGenerateVerbPastParticiple
  \/ CallGenerateAdjectiveComparative
  \/ CallGenerateAdjectiveSuperative
  \/ CallGenerateAdverbComparative
  \/ CallGenerateAdverbSuperative
  \/ ReturnGenerated
  \/ Construct
  \/ LoadLine
  \/ LoadDone
  \/ CallSearch
  \/ CallLookupPhraseInfo
  \/ CallInflectNoun
  \/ CallInflectVerb
  \/ CallInflectAdjective
  \/ CallInflectAdverb
  \/ CallInflect
  \/ MutateReturned
  \/ Return

Spec == Init /\ [][Next]_vars

(***************************************************************************)
(* Word (src/src/englishstudyhelper/word.py)                               *)
(***************************************************************************)
\* number of method calls made on a Word
MaxCalls == 4

\* the sentences handed to add_example
Sentences == {"This is a test.", "Another test.", "A third test."}
\* the values of the count argument of the constructor
Counts == {0, 5}

\* example in self.examples
InExamples(example, list) == \E k \in 1..Len(list) : list[k] = example

\* the list after add_example without the membership test
add_example_Always(list, example) == Append(list, example)
\* self.examples after add_example(example)
add_example(list, example) ==
  IF ~InExamples(example, list) THEN Append(list, example) ELSE list

\* self.count after increment_count()
increment_count(n) == n + 1

InitHelper ==
  /\ pc = "helper"
  /\ source = <<>>
  /\ nread = 0
  /\ word_dict = [k \in {} |-> <<>>]
  /\ index = [k \in {} |-> <<>>]
  /\ op = NoCall
  /\ ret = <<>>
  /\ count = 0
  /\ examples = <<>>
  /\ calls = <<>>
  /\ base_call = NoBaseCall
  /\ base_form = NoBaseForm

\* Word(text, pos) or Word(text, pos, count = n): __post_init__ replaces the default None by a new list
ConstructWord ==
  /\ pc = "helper"
  /\ pc' = "word"
  /\ \E n \in Counts :
       /\ count' = n
       /\ calls' = <<[name |-> "Word", count |-> n]>>
  /\ examples' = <<>>
  /\ UNCHANGED <<source, nread, word_dict, index, op, ret, base_call, base_form>>

CallAddExample ==
  /\ pc = "word"
  /\ Len(calls) <= MaxCalls
  /\ \E example \in Sentences :
       /\ examples' = add_example(examples, example)
       /\ calls' = Append(calls, [name |-> "add_example", example |-> example])
  /\ UNCHANGED <<pc, source, nread, word_dict, index, op, ret, count, base_call, base_form>>

CallIncrementCount ==
  /\ pc = "word"
  /\ Len(calls) <= MaxCalls
  /\ count' = increment_count(count)
  /\ calls' = Append(calls, [name |-> "increment_count"])
  /\ UNCHANGED <<pc, source, nread, word_dict, index, op, ret, examples, base_call, base_form>>

(***************************************************************************)
(* Dictionary._get_base_form (src/src/englishstudyhelper/dictionary.py)    *)
(***************************************************************************)
\* length of the words handed to _get_base_form
MaxFormLen == 4

\* men -> man, ...
irregular_plurals ==
  <<
    <<<<"m", "e", "n">>, <<"m", "a", "n">>>>,
    <<<<"w", "o", "m", "e", "n">>, <<"w", "o", "m", "a", "n">>>>,
    <<<<"c", "h", "i", "l", "d", "r", "e", "n">>, <<"c", "h", "i", "l", "d">>>>,
    <<<<"p", "e", "o", "p", "l", "e">>, <<"p", "e", "r", "s", "o", "n">>>>,
    <<<<"m", "i", "c", "e">>, <<"m", "o", "u", "s", "e">>>>,
    <<<<"f", "e", "e", "t">>, <<"f", "o", "o", "t">>>>,
    <<<<"t", "e", "e", "t", "h">>, <<"t", "o", "o", "t", "h">>>>,
    <<<<"g", "e", "e", "s", "e">>, <<"g", "o", "o", "s", "e">>>>,
    <<<<"o", "x", "e", "n">>, <<"o", "x">>>>,
    <<<<"l", "e", "a", "v", "e", "s">>, <<"l", "e", "a", "f">>>>,
    <<<<"l", "i", "v", "e", "s">>, <<"l", "i", "f", "e">>>>,
    <<<<"k", "n", "i", "v", "e", "s">>, <<"k", "n", "i", "f", "e">>>>,
    <<<<"w", "o", "l", "v", "e", "s">>, <<"w", "o", "l", "f">>>>,
    <<<<"s", "h", "e", "l", "v", "e", "s">>, <<"s", "h", "e", "l", "f">>>>,
    <<<<"t", "h", "i", "e", "v", "e", "s">>, <<"t", "h", "i", "e", "f">>>>,
    <<<<"p", "o", "t", "a", "t", "o", "e", "s">>, <<"p", "o", "t", "a", "t", "o">>>>,
    <<<<"t", "o", "m", "a", "t", "o", "e", "s">>, <<"t", "o", "m", "a", "t", "o">>>>,
    <<<<"h", "e", "r", "o", "e", "s">>, <<"h", "e", "r", "o">>>>,
    <<<<"e", "c", "h", "o", "e", "s">>, <<"e", "c", "h", "o">>>>,
    <<<<"d", "a", "t", "a">>, <<"d", "a", "t", "u", "m">>>>,
    <<<<"c", "r", "i", "t", "e", "r", "i", "a">>, <<"c", "r", "i", "t", "e", "r", "i", "o", "n">>>>,
    <<<<"p", "h", "e", "n", "o", "m", "e", "n", "a">>, <<"p", "h", "e", "n", "o", "m", "e", "n", "o", "n">>>>
  >>

\* was -> be, ...
irregular_verbs ==
  <<
    <<<<"w", "a", "s">>, <<"b", "e">>>>,
    <<<<"w", "e", "r", "e">>, <<"b", "e">>>>,
    <<<<"b", "e", "e", "n">>, <<"b", "e">>>>,
    <<<<"h", "a", "d">>, <<"h", "a", "v", "e">>>>,
    <<<<"d", "i", "d">>, <<"d", "o">>>>,
    <<<<"d", "o", "n", "e">>, <<"d", "o">>>>,
    <<<<"s", "a", "i", "d">>, <<"s", "a", "y">>>>,
    <<<<"m", "a", "d", "e">>, <<"m", "a", "k", "e">>>>,
    <<<<"w", "e", "n", "t">>, <<"g", "o">>>>,
    <<<<"g", "o", "n", "e">>, <<"g", "o">>>>,
    <<<<"t", "o", "o", "k">>, <<"t", "a", "k", "e">>>>,
    <<<<"t", "a", "k", "e", "n">>, <<"t", "a", "k", "e">>>>,
    <<<<"c", "a", "m", "e">>, <<"c", "o", "m", "e">>>>,
    <<<<"s", "a", "w">>, <<"s", "e", "e">>>>,
    <<<<"s", "e", "e", "n">>, <<"s", "e", "e">>>>,
    <<<<"g", "a", "v", "e">>, <<"g", "i", "v", "e">>>>,
    <<<<"g", "i", "v", "e", "n">>, <<"g", "i", "v", "e">>>>,
    <<<<"k", "n", "e", "w">>, <<"k", "n", "o", "w">>>>,
    <<<<"k", "n", "o", "w", "n">>, <<"k", "n", "o", "w">>>>,
    <<<<"g", "o", "t">>, <<"g", "e", "t">>>>,
    <<<<"g", "o", "t", "t", "e", "n">>, <<"g", "e", "t">>>>,
    <<<<"f", "o", "u", "n", "d">>, <<"f", "i", "n", "d">>>>,
    <<<<"t", "h", "o", "u", "g", "h", "t">>, <<"t", "h", "i", "n", "k">>>>,
    <<<<"t", "o", "l", "d">>, <<"t", "e", "l", "l">>>>,
    <<<<"b", "e", "c", "a", "m", "e">>, <<"b", "e", "c", "o", "m", "e">>>>,
    <<<<"l", "e", "f", "t">>, <<"l", "e", "a", "v", "e">>>>,
    <<<<"f", "e", "l", "t">>, <<"f", "e", "e", "l">>>>,
    <<<<"b", "r", "o", "u", "g", "h", "t">>, <<"b", "r", "i", "n", "g">>>>,
    <<<<"b", "e", "g", "a", "n">>, <<"b", "e", "g", "i", "n">>>>,
    <<<<"b", "e", "g", "u", "n">>, <<"b", "e", "g", "i", "n">>>>,
    <<<<"k", "e", "p", "t">>, <<"k", "e", "e", "p">>>>,
    <<<<"h", "e", "l", "d">>, <<"h", "o", "l", "d">>>>,
    <<<<"w", "r", "o", "t", "e">>, <<"w", "r", "i", "t", "e">>>>,
    <<<<"w", "r", "i", "t", "t", "e", "n">>, <<"w", "r", "i", "t", "e">>>>,
    <<<<"r", "a", "n">>, <<"r", "u", "n">>>>,
    <<<<"m", "e", "t">>, <<"m", "e", "e", "t">>>>,
    <<<<"s", "a", "t">>, <<"s", "i", "t">>>>,
    <<<<"s", "p", "o", "k", "e">>, <<"s", "p", "e", "a", "k">>>>,
    <<<<"s", "p", "o", "k", "e", "n">>, <<"s", "p", "e", "a", "k">>>>,
    <<<<"s", "t", "o", "o", "d">>, <<"s", "t", "a", "n", "d">>>>,
    <<<<"l", "o", "s", "t">>, <<"l", "o", "s", "e">>>>,
    <<<<"p", "a", "i", "d">>, <<"p", "a", "y">>>>,
    <<<<"h", "e", "a", "r", "d">>, <<"h", "e", "a", "r">>>>,
    <<<<"m", "e", "a", "n", "t">>, <<"m", "e", "a", "n">>>>,
    <<<<"s", "e", "t">>, <<"s", "e", "t">>>>,
    <<<<"l", "e", "a", "r", "n", "e", "d">>, <<"l", "e", "a", "r", "n">>>>,
    <<<<"l", "e", "a", "r", "n", "t">>, <<"l", "e", "a", "r", "n">>>>,
    <<<<"c", "h", "a", "n", "g", "e", "d">>, <<"c", "h", "a", "n", "g", "e">>>>,
    <<<<"l", "e", "d">>, <<"l", "e", "a", "d">>>>,
    <<<<"u", "n", "d", "e", "r", "s", "t", "o", "o", "d">>, <<"u", "n", "d", "e", "r", "s", "t", "a", "n", "d">>>>,
    <<<<"w", "a", "t", "c", "h", "e", "d">>, <<"w", "a", "t", "c", "h">>>>
  >>

\* being -> be, ...
irregular_ing_verbs ==
  <<
    <<<<"b", "e", "i", "n", "g">>, <<"b", "e">>>>,
    <<<<"h", "a", "v", "i", "n", "g">>, <<"h", "a", "v", "e">>>>,
    <<<<"d", "o", "i", "n", "g">>, <<"d", "o">>>>,
    <<<<"s", "a", "y", "i", "n", "g">>, <<"s", "a", "y">>>>,
    <<<<"m", "a", "k", "i", "n", "g">>, <<"m", "a", "k", "e">>>>,
    <<<<"g", "o", "i", "n", "g">>, <<"g", "o">>>>,
    <<<<"t", "a", "k", "i", "n", "g">>, <<"t", "a", "k", "e">>>>,
    <<<<"c", "o", "m", "i", "n", "g">>, <<"c", "o", "m", "e">>>>,
    <<<<"s", "e", "e", "i", "n", "g">>, <<"s", "e", "e">>>>,
    <<<<"g", "i", "v", "i", "n", "g">>, <<"g", "i", "v", "e">>>>,
    <<<<"k", "n", "o", "w", "i", "n", "g">>, <<"k", "n", "o", "w">>>>,
    <<<<"g", "e", "t", "t", "i", "n", "g">>, <<"g", "e", "t">>>>,
    <<<<"f", "i", "n", "d", "i", "n", "g">>, <<"f", "i", "n", "d">>>>,
    <<<<"t", "h", "i", "n", "k", "i", "n", "g">>, <<"t", "h", "i", "n", "k">>>>,
    <<<<"t", "e", "l", "l", "i", "n", "g">>, <<"t", "e", "l", "l">>>>,
    <<<<"b", "e", "c", "o", "m", "i", "n", "g">>, <<"b", "e", "c", "o", "m", "e">>>>,
    <<<<"l", "e", "a", "v", "i", "n", "g">>, <<"l", "e", "a", "v", "e">>>>,
    <<<<"f", "e", "e", "l", "i", "n", "g">>, <<"f", "e", "e", "l">>>>,
    <<<<"b", "r", "i", "n", "g", "i", "n", "g">>, <<"b", "r", "i", "n", "g">>>>,
    <<<<"b", "e", "g", "i", "n", "n", "i", "n", "g">>, <<"b", "e", "g", "i", "n">>>>,
    <<<<"k", "e", "e", "p", "i", "n", "g">>, <<"k", "e", "e", "p">>>>,
    <<<<"h", "o", "l", "d", "i", "n", "g">>, <<"h", "o", "l", "d">>>>,
    <<<<"w", "r", "i", "t", "i", "n", "g">>, <<"w", "r", "i", "t", "e">>>>,
    <<<<"r", "u", "n", "n", "i", "n", "g">>, <<"r", "u", "n">>>>,
    <<<<"m", "e", "e", "t", "i", "n", "g">>, <<"m", "e", "e", "t">>>>,
    <<<<"s", "i", "t", "t", "i", "n", "g">>, <<"s", "i", "t">>>>,
    <<<<"s", "p", "e", "a", "k", "i", "n", "g">>, <<"s", "p", "e", "a", "k">>>>,
    <<<<"s", "t", "a", "n", "d", "i", "n", "g">>, <<"s", "t", "a", "n", "d">>>>,
    <<<<"l", "o", "s", "i", "n", "g">>, <<"l", "o", "s", "e">>>>,
    <<<<"p", "a", "y", "i", "n", "g">>, <<"p", "a", "y">>>>,
    <<<<"h", "e", "a", "r", "i", "n", "g">>, <<"h", "e", "a", "r">>>>,
    <<<<"m", "e", "a", "n", "i", "n", "g">>, <<"m", "e", "a", "n">>>>,
    <<<<"s", "e", "t", "t", "i", "n", "g">>, <<"s", "e", "t">>>>,
    <<<<"l", "e", "a", "r", "n", "i", "n", "g">>, <<"l", "e", "a", "r", "n">>>>,
    <<<<"c", "h", "a", "n", "g", "i", "n", "g">>, <<"c", "h", "a", "n", "g", "e">>>>,
    <<<<"l", "e", "a", "d", "i", "n", "g">>, <<"l", "e", "a", "d">>>>,
    <<<<"u", "n", "d", "e", "r", "s", "t", "a", "n", "d", "i", "n", "g">>, <<"u", "n", "d", "e", "r", "s", "t", "a", "n", "d">>>>,
    <<<<"w", "a", "t", "c", "h", "i", "n", "g">>, <<"w", "a", "t", "c", "h">>>>,
    <<<<"p", "l", "a", "y", "i", "n", "g">>, <<"p", "l", "a", "y">>>>,
    <<<<"m", "o", "v", "i", "n", "g">>, <<"m", "o", "v", "e">>>>,
    <<<<"l", "i", "v", "i", "n", "g">>, <<"l", "i", "v", "e">>>>,
    <<<<"b", "e", "l", "i", "e", "v", "i", "n", "g">>, <<"b", "e", "l", "i", "e", "v", "e">>>>,
    <<<<"s", "h", "o", "w", "i", "n", "g">>, <<"s", "h", "o", "w">>>>,
    <<<<"t", "r", "y", "i", "n", "g">>, <<"t", "r", "y">>>>,
    <<<<"a", "s", "k", "i", "n", "g">>, <<"a", "s", "k">>>>,
    <<<<"w", "o", "r", "k", "i", "n", "g">>, <<"w", "o", "r", "k">>>>,
    <<<<"s", "e", "e", "m", "i", "n", "g">>, <<"s", "e", "e", "m">>>>,
    <<<<"c", "a", "l", "l", "i", "n", "g">>, <<"c", "a", "l", "l">>>>,
    <<<<"l", "o", "o", "k", "i", "n", "g">>, <<"l", "o", "o", "k">>>>
  >>

\* is -> be, ...
irregular_third_person ==
  <<
    <<<<"i", "s">>, <<"b", "e">>>>,
    <<<<"h", "a", "s">>, <<"h", "a", "v", "e">>>>,
    <<<<"d", "o", "e", "s">>, <<"d", "o">>>>,
    <<<<"s", "a", "y", "s">>, <<"s", "a", "y">>>>,
    <<<<"g", "o", "e", "s">>, <<"g", "o">>>>
  >>

\* better -> good, ...
irregular_comparatives ==
  <<
    <<<<"b", "e", "t", "t", "e", "r">>, <<"g", "o", "o", "d">>>>,
    <<<<"w", "o", "r", "s", "e">>, <<"b", "a", "d">>>>,
    <<<<"m", "o", "r", "e">>, <<"m", "a", "n", "y">>>>,
    <<<<"l", "e", "s", "s">>, <<"l", "i", "t", "t", "l", "e">>>>,
    <<<<"o", "l", "d", "e", "r">>, <<"o", "l", "d">>>>,
    <<<<"e", "l", "d", "e", "r">>, <<"o", "l", "d">>>>
  >>

\* a returned string, and an IndexError raised by a subscript
Returned(value) == [raised |-> FALSE, value |-> value]
IndexErrorRaised == [raised |-> TRUE, value |-> <<"I", "n", "d", "e", "x", "E", "r", "r", "o", "r">>]

\* word.lower()
lower(word) == [k \in 1..Len(word) |-> Lower(word[k])]
\* word.endswith(suffix)
endswith(word, suffix) ==
  /\ Len(word) >= Len(suffix)
  /\ SubSeq(word, Len(word) - Len(suffix) + 1, Len(word)) = suffix
\* word[-n] raises IndexError when the word has fewer than n characters
CanIndex(word, n) == Len(word) >= n
\* word[-n]
FromEnd(word, n) == word[Len(word) - n + 1]
NotVowel(c) == c \notin {"a", "e", "i", "o", "u"}

_get_singular_noun(word) ==
  IF DictHas(irregular_plurals, word) THEN Returned(DictGet(irregular_plurals, word))
  ELSE IF endswith(word, <<"i", "e", "s">>) /\ Len(word) > 3
    THEN Returned(DropLast(word, 3) \o <<"y">>)
  ELSE IF endswith(word, <<"e", "s">>) /\ ~CanIndex(word, 3) THEN IndexErrorRaised
  ELSE IF endswith(word, <<"e", "s">>) /\ FromEnd(word, 3) \in {"s", "x", "z", "h"}
    THEN Returned(DropLast(word, 2))
  ELSE IF endswith(word, <<"s">>) /\ ~endswith(word, <<"s", "s">>)
    THEN Returned(DropLast(word, 1))
  ELSE Returned(word)

_get_verb_infinitive(word) ==
  IF DictHas(irregular_verbs, word) THEN Returned(DictGet(irregular_verbs, word))
  ELSE IF endswith(word, <<"e", "d">>) /\ Len(word) > 2
    THEN IF endswith(word, <<"i", "e", "d">>) /\ Len(word) > 3
           THEN Returned(DropLast(word, 3) \o <<"y">>)
         ELSE IF ~CanIndex(word, 4) THEN IndexErrorRaised
         ELSE IF FromEnd(word, 3) = FromEnd(word, 4) /\ NotVowel(FromEnd(word, 3))
           THEN Returned(DropLast(word, 3))
         ELSE Returned(DropLast(word, 2))
  ELSE Returned(word)

_get_verb_infinitive_from_ing(word) ==
  IF DictHas(irregular_ing_verbs, word) THEN Returned(DictGet(irregular_ing_verbs, word))
  ELSE IF endswith(word, <<"i", "n", "g">>)
    THEN IF /\ Len(word) > 4
            /\ FromEnd(word, 4) = FromEnd(word, 5)
            /\ NotVowel(FromEnd(word, 4))
           THEN Returned(DropLast(word, 4))
         ELSE IF Len(word) > 3 /\ FromEnd(word, 4) = "y" THEN Returned(DropLast(word, 3))
         ELSE IF Len(word) > 3 THEN Returned(DropLast(word, 3))
         ELSE Returned(word)
  ELSE Returned(word)

_get_verb_infinitive_from_third_person(word) ==
  IF DictHas(irregular_third_person, word)
    THEN Returned(DictGet(irregular_third_person, word))
  ELSE IF endswith(word, <<"i", "e", "s">>) /\ Len(word) > 3
    THEN Returned(DropLast(word, 3) \o <<"y">>)
  ELSE IF endswith(word, <<"e", "s">>) /\ ~CanIndex(word, 3) THEN IndexErrorRaised
  ELSE IF endswith(word, <<"e", "s">>) /\ FromEnd(word, 3) \in {"s", "x", "z", "h"}
    THEN Returned(DropLast(word, 2))
  ELSE IF endswith(word, <<"s">>) /\ ~endswith(word, <<"s", "s">>)
    THEN Returned(DropLast(word, 1))
  ELSE Returned(word)

_get_adjective_positive(word) ==
  IF DictHas(irregular_comparatives, word)
    THEN Returned(DictGet(irregular_comparatives, word))
  ELSE IF endswith(word, <<"e", "r">>)
    THEN IF /\ Len(word) > 3
            /\ FromEnd(word, 3) = FromEnd(word, 4)
            /\ NotVowel(FromEnd(word, 3))
           THEN Returned(DropLast(word, 3))
         ELSE IF Len(word) > 2 /\ FromEnd(word, 3) = "i"
           THEN Returned(DropLast(word, 3) \o <<"y">>)
         ELSE IF Len(word) > 2 THEN Returned(DropLast(word, 2))
         ELSE Returned(word)
  ELSE Returned(word)

\* the part_of_speech argument: the default None, and tags of the NLTK tagger
NoneTag == "None"
PartsOfSpeech == {NoneTag, "NNS", "VBD", "VBN", "VBG", "VBZ", "JJR", "JJ", "NN"}

_get_base_form(word, part_of_speech) ==
  IF part_of_speech = NoneTag THEN Returned(word)
  ELSE IF part_of_speech \in {"NNS"} THEN _get_singular_noun(lower(word))
  ELSE IF part_of_speech \in {"VBD", "VBN"} THEN _get_verb_infinitive(lower(word))
  ELSE IF part_of_speech = "VBG" THEN _get_verb_infinitive_from_ing(lower(word))
  ELSE IF part_of_speech = "VBZ" THEN _get_verb_infinitive_from_third_person(lower(word))
  ELSE IF part_of_speech = "JJR" THEN _get_adjective_positive(lower(word))
  ELSE IF part_of_speech = "JJ"
    THEN LET singular == _get_singular_noun(lower(word))
         IN  IF singular.raised THEN singular
             ELSE IF singular.value # lower(word) THEN singular
             ELSE Returned(lower(word))
  ELSE Returned(lower(word))

\* the characters of the words handed to _get_base_form
FormAlphabet == {"b", "d", "e", "i", "n", "s", "x", "y"}
F_men == <<"m", "e", "n">>
F_was == <<"w", "a", "s">>
F_TIES == <<"T", "i", "E", "S">>
F_running == <<"r", "u", "n", "n", "i", "n", "g">>
F_hopping == <<"h", "o", "p", "p", "i", "n", "g">>
F_bigger == <<"b", "i", "g", "g", "e", "r">>
F_happier == <<"h", "a", "p", "p", "i", "e", "r">>
F_stopped == <<"s", "t", "o", "p", "p", "e", "d">>
F_goes == <<"g", "o", "e", "s">>
F_better == <<"b", "e", "t", "t", "e", "r">>
\* the arguments of _get_base_form
Forms ==
  UNION {[1..n -> FormAlphabet] : n \in 0..MaxFormLen}
    \cup {F_men, F_was, F_TIES, F_running, F_hopping, F_bigger, F_happier, F_stopped,
          F_goes, F_better}

\* _get_base_form(word, part_of_speech) is called, as get_word_translation does
CallGetBaseForm ==
  /\ pc = "helper"
  /\ pc' = "based"
  /\ \E word \in Forms, part_of_speech \in PartsOfSpeech :
       /\ base_call' = [word |-> word, part_of_speech |-> part_of_speech]
       /\ base_form' = _get_base_form(word, part_of_speech)
  /\ UNCHANGED <<source, nread, word_dict, index, op, ret, count, examples, calls>>

\* the caller is done with the base form
ReturnBaseForm ==
  /\ pc = "based"
  /\ pc' = "helper"
  /\ base_call' = NoBaseCall
  /\ base_form' = NoBaseForm
  /\ UNCHANGED <<source, nread, word_dict, index, op, ret, count, examples, calls>>

NextHelper ==
  \/ ConstructWord
  \/ CallAddExample
  \/ CallIncrementCount
  \/ CallGetBaseForm
  \/ ReturnBaseForm

SpecHelper == InitHelper /\ [][NextHelper]_vars

(***************************************************************************)
(* Vocabulary of the properties                                            *)
(***************************************************************************)
InflectNames == {"InflectNoun", "InflectVerb", "InflectAdjective", "InflectAdverb", "Inflect"}
\* the labels each operation is documented to produce
RequestedLabels(name) ==
  CASE name = "InflectNoun" -> {np}
    [] name = "InflectVerb" -> {vs, vc, vp, vx}
    [] name = "InflectAdjective" -> {ajc, ajs}
    [] name = "InflectAdverb" -> {avc, avs}
    [] name = "Inflect" -> {np, vs, vc, vp, vx, ajc, ajs, avc, avs}
InSeq(x, seq) == \E n \in 1..Len(seq) : seq[n] = x
\* the labels of a record: its keys other than the occurrence cost
RecordLabels(attrs) == DictKeys(attrs) \ {i_key}
SearchReturned == pc = "returned" /\ op.name = "Search"
InflectReturned == pc = "returned" /\ op.name \in InflectNames
\* the phrase is written as its word tokens joined by single spaces
IsCanonical(phrase) == Canonical(phrase) = phrase

(***************************************************************************)
(* C1                                                                      *)
(***************************************************************************)
\* C1: an Inflect operation called with fallback disabled on the base phrase of a record
\* returns, under every label it requests and the record has, exactly the record's list for
\* that label, whatever other records the store holds.  Stated here for records whose base is
\* written in canonical form, the form the operations look a phrase up in.
C1_RoundTrip ==
  (InflectReturned /\ ~op.fbgen /\ IsCanonical(op.phrase) /\ HasRecord(op.phrase)) =>
    \A L \in RequestedLabels(op.name) \cap RecordLabels(word_dict[op.phrase]) :
      DictHas(ret, L) /\ DictGet(ret, L) = DictGet(word_dict[op.phrase], L)

(***************************************************************************)
(* C2                                                                      *)
(***************************************************************************)
\* C2 as stated: for every record with base B and label L whose first value is v1,
\* Search(v1) has a candidate with base B whose matchedLabels contain L.
C2_Original ==
  SearchReturned =>
    \A B \in DOMAIN word_dict : \A L \in RecordLabels(word_dict[B]) :
      DictGet(word_dict[B], L)[1] = op.phrase =>
        \E n \in 1..Len(ret) : ret[n].base = B /\ InSeq(L, ret[n].labels)

\* C2 amended: the same when v1 is written in canonical form and is not the base B itself.
C2_SearchFindsBase ==
  (SearchReturned /\ IsCanonical(op.phrase)) =>
    \A B \in DOMAIN word_dict : \A L \in RecordLabels(word_dict[B]) :
      (B # op.phrase /\ DictGet(word_dict[B], L)[1] = op.phrase) =>
        \E n \in 1..Len(ret) : ret[n].base = B /\ InSeq(L, ret[n].labels)

\* Search was called on the first value of a label of another base and returned that base
C2_Witness ==
  /\ SearchReturned /\ IsCanonical(op.phrase)
  /\ \E B \in DOMAIN word_dict : \E L \in RecordLabels(word_dict[B]) :
       /\ B # op.phrase /\ DictGet(word_dict[B], L)[1] = op.phrase
       /\ \E n \in 1..Len(ret) : ret[n].base = B /\ InSeq(L, ret[n].labels)

(***************************************************************************)
(* C3                                                                      *)
(***************************************************************************)
\* C3: the list Search returns is in ascending order of cost, equal costs in ascending
\* order of the candidate string.
C3_SearchSorted ==
  SearchReturned =>
    \A n \in 1..(Len(ret) - 1) :
      \/ ret[n].cost < ret[n + 1].cost
      \/ /\ ret[n].cost = ret[n + 1].cost
         /\ (ret[n].base = ret[n + 1].base \/ StrLess(ret[n].base, ret[n + 1].base))

\* the substitution step produced two candidates and the one produced last is returned first
C3_Witness ==
  /\ SearchReturned /\ op.phrase = P_bigger_dogs
  /\ Len(ret) = 2
  /\ ret[1].base = <<"b", "i", "g", "g", "e", "r", " ", "d", "o", "g">>
  /\ ret[2].base = P_big_dogs

(***************************************************************************)
(* C4                                                                      *)
(***************************************************************************)
\* C4 as stated: if P is a stored base form with occurrence cost c, the first entry of
\* Search(P) is (P, c, ["o"]) unless another candidate has a strictly lower cost.  Stated
\* here for P written in canonical form and c other than 0.
C4_Original ==
  (SearchReturned /\ IsCanonical(op.phrase) /\ HasRecord(op.phrase)
     /\ DictHas(word_dict[op.phrase], i_key) /\ DictGet(word_dict[op.phrase], i_key) # 0) =>
    LET c == DictGet(word_dict[op.phrase], i_key)
        cand == [base |-> op.phrase, cost |-> c, labels |-> <<o_key>>]
    IN  \/ Len(ret) >= 1 /\ ret[1] = cand
        \/ \E n \in 1..Len(ret) : ret[n] # cand /\ ret[n].cost < c

\* C4 amended: if P is written in canonical form and is a stored base form with occurrence
\* cost c, Search(P) contains (P, c, ["o"]), with 20 in place of c when c is 0, and that
\* entry is the first one unless another candidate has a strictly lower cost, or the same
\* cost and a smaller candidate string.
C4_ExactPhraseFirst ==
  (SearchReturned /\ IsCanonical(op.phrase) /\ HasRecord(op.phrase)
     /\ DictHas(word_dict[op.phrase], i_key)) =>
    LET stored == DictGet(word_dict[op.phrase], i_key)
        c == IF stored = 0 THEN 20 ELSE stored
        cand == [base |-> op.phrase, cost |-> c, labels |-> <<o_key>>]
    IN  /\ InSeq(cand, ret)
        /\ \/ ret[1] = cand
           \/ \E n \in 1..Len(ret) :
                /\ ret[n] # cand
                /\ \/ ret[n].cost < c
                   \/ ret[n].cost = c /\ StrLess(ret[n].base, op.phrase)

\* Search was called on a stored base form that has an occurrence cost, found a second
\* candidate of higher cost, and returned the phrase itself first
C4_Witness ==
  /\ SearchReturned /\ IsCanonical(op.phrase) /\ HasRecord(op.phrase)
  /\ DictHas(word_dict[op.phrase], i_key)
  /\ Len(ret) >= 2
  /\ ret[1] = [base |-> op.phrase, cost |-> DictGet(word_dict[op.phrase], i_key),
               labels |-> <<o_key>>]
  /\ ret[2].cost > ret[1].cost

(***************************************************************************)
(* C5                                                                      *)
(***************************************************************************)
\* C5: if the canonical phrase is a stored base form, whatever fields its record has, the
\* result of Search contains (phrase, c, ["o"]) where c is the occurrence cost of the record
\* when it carries one and 20 only when it carries none.
C5_OriginalCandidate ==
  (SearchReturned /\ HasRecord(Canonical(op.phrase))) =>
    LET attrs == word_dict[Canonical(op.phrase)]
        c == IF DictHas(attrs, i_key) THEN DictGet(attrs, i_key) ELSE 20
    IN  InSeq([base |-> Canonical(op.phrase), cost |-> c, labels |-> <<o_key>>], ret)

(***************************************************************************)
(* C6                                                                      *)
(***************************************************************************)
\* the place of the first entry of the list equal to x
FirstPlace(list, x) == CHOOSE n \in 1..Len(list) : list[n] = x /\ \A m \in 1..(n - 1) : list[m] # x
\* the labels of the record, in record order, whose value list contains x
LabelsHolding(attrs, x) ==
  SelectSeq([n \in 1..Len(attrs) |-> attrs[n][1]],
            LAMBDA key : key # i_key /\ InSeq(x, DictGet(attrs, key)))
\* category cost of the label + 3 for each entry before the first exact match
CostOfLabel(attrs, key, x) == _inflection_costs[key] + 3 * (FirstPlace(DictGet(attrs, key), x) - 1)
\* the minimum of CostOfLabel over the labels holding x
MinCostOfLabels(attrs, x) ==
  LET costs == {CostOfLabel(attrs, key, x) : key \in {k \in RecordLabels(attrs) : InSeq(x, DictGet(attrs, k))}}
  IN  CHOOSE c \in costs : \A d \in costs : c <= d
\* occurrenceCost or 20: the occurrence cost unless it is absent or 0
OccurrenceCostOr20(attrs) ==
  IF DictHas(attrs, i_key) /\ DictGet(attrs, i_key) # 0 THEN DictGet(attrs, i_key) ELSE 20

\* C6: when the phrase is a stored inflected form of a base B other than the phrase, the
\* candidate of Search for B costs (occurrenceCost(B) or 20) + the minimum, over the labels of
\* B whose list contains the phrase, of (category cost + 3 per entry before the first exact
\* match), and its matchedLabels are exactly those labels; with run (occurrence cost 3,
\* vc [running]) alone in the store, Search(running) is [(run, 4, [vc])].
C6_SearchCost ==
  SearchReturned =>
    LET cp == Canonical(op.phrase)
    IN  /\ \A B \in DOMAIN word_dict :
             (B # cp /\ LabelsHolding(word_dict[B], cp) # <<>>) =>
               \E n \in 1..Len(ret) :
                 /\ ret[n].base = B
                 /\ ret[n].cost = OccurrenceCostOr20(word_dict[B]) + MinCostOfLabels(word_dict[B], cp)
                 /\ ret[n].labels = LabelsHolding(word_dict[B], cp)
        /\ (op.phrase = P_running /\ word_dict = (P_run :> <<<<i_key, 3>>, <<vc, <<P_running>>>>>>)) =>
             ret = <<[base |-> P_run, cost |-> 4, labels |-> <<vc>>]>>

(***************************************************************************)
(* C7                                                                      *)
(***************************************************************************)
\* the minimum label cost of the base against the token, 10 when no label holds the token
MinCostOrDefault(attrs, x) ==
  IF LabelsHolding(attrs, x) = <<>> THEN 10 ELSE MinCostOfLabels(attrs, x)

\* C7: substitution runs only when the whole-phrase steps produced no candidate and the
\* phrase has more than one token; then, for every token position and every base B whose
\* inverted-index entry holds that token, the result contains the phrase with that token
\* replaced by B at cost (occurrenceCost(B) or 20) + 20 + the minimum label cost against the
\* token; otherwise every candidate is the phrase itself or a base indexed under it.
C7_Substitution ==
  SearchReturned =>
    LET tokens == Tokenize(op.phrase)
        cp == Canonical(op.phrase)
    IN  IF PhraseMatches(op.phrase).matches = <<>> /\ Len(tokens) > 1
        THEN \A at \in 1..Len(tokens) : \A b \in 1..Len(IndexGet(tokens[at])) :
               LET B == IndexGet(tokens[at])[b]
               IN  \E n \in 1..Len(ret) :
                     /\ ret[n].base = Join([tokens EXCEPT ![at] = B], " ")
                     /\ ret[n].cost = OccurrenceCostOr20(WordAttrs(B)) + 20
                                        + MinCostOrDefault(WordAttrs(B), tokens[at])
        ELSE \A n \in 1..Len(ret) : ret[n].base = cp \/ InSeq(ret[n].base, IndexGet(cp))

(***************************************************************************)
(* C8                                                                      *)
(***************************************************************************)
\* C8: Search on a phrase of one token that is neither a stored base form nor a stored
\* inflected form (the inverted index holds every inflected form read from the source)
\* returns the empty list.
C8_UnknownSingleToken ==
  (SearchReturned /\ Len(Tokenize(op.phrase)) = 1
     /\ ~HasRecord(Canonical(op.phrase)) /\ Canonical(op.phrase) \notin DOMAIN index) =>
    ret = <<>>

\* Search was called with an unknown word on a store that holds records, and returned nothing
C8_Witness ==
  /\ SearchReturned /\ op.phrase = P_zy
  /\ DOMAIN word_dict # {} /\ DOMAIN index # {}
  /\ ret = <<>>

(***************************************************************************)
(* C9 and C10                                                              *)
(***************************************************************************)
\* the record has a list for the label
HasLabel(attrs, L) == DictHas(attrs, L) /\ DictGet(attrs, L) # <<>>
\* the place of the focus token: the last token for np, avc and avs, the first for the others
FocusPlace(L, tokens) == IF L \in {np, avc, avs} THEN Len(tokens) ELSE 1
ProvenanceKeys == {ph_key, th_key, pi_key}
\* the suffix heuristic of each label
Heuristic(L, word) ==
  CASE L = np -> GenerateNounPlural(word)
    [] L = vs -> GenerateVerbSingular(word)
    [] L = vc -> GenerateVerbPresentParticiple(word)
    [] L = vp -> GenerateVerbPast(word)
    [] L = vx -> GenerateVerbPastParticiple(word)
    [] L = ajc -> GenerateAdjectiveComparative(word)
    [] L = ajs -> GenerateAdjectiveSuperative(word)
    [] L = avc -> GenerateAdverbComparative(word)
    [] L = avs -> GenerateAdverbSuperative(word)

\* neither the whole phrase nor its focus token has a store entry for the label
NoStoreEntry(L, phrase) ==
  LET tokens == Tokenize(phrase)
  IN  /\ ~HasLabel(WordAttrs(Canonical(phrase)), L)
      /\ tokens # <<>> => ~HasLabel(WordAttrs(tokens[FocusPlace(L, tokens)]), L)

\* C9: with fallback disabled, a requested label for which neither the whole phrase nor its
\* focus token has a store entry is not a key of the result.
C9_FallbackGating ==
  (InflectReturned /\ ~op.fbgen) =>
    \A L \in RequestedLabels(op.name) : NoStoreEntry(L, op.phrase) => ~DictHas(ret, L)

\* an operation with fallback disabled returned a label found in the store and left out one
\* that is not in the store
C9_Witness ==
  /\ InflectReturned /\ ~op.fbgen
  /\ \E L \in RequestedLabels(op.name) : NoStoreEntry(L, op.phrase) /\ ~DictHas(ret, L)
  /\ \E L \in RequestedLabels(op.name) : DictHas(ret, L)

\* the store has no record for the phrase or for any of its tokens
NoRecordAtAll(phrase) ==
  /\ ~HasRecord(phrase)
  /\ ~HasRecord(Canonical(phrase))
  /\ \A n \in 1..Len(Tokenize(phrase)) : ~HasRecord(Tokenize(phrase)[n])

\* C10: for a phrase the store has no record for (whole phrase or token), an Inflect
\* operation with fallback enabled returns, under every requested label whose focus position
\* is in range, the one-element list of the phrase with the focus token replaced by the
\* output of the heuristic of the label, and no provenance list and no occurrence cost.
C10_FallbackOnly ==
  (InflectReturned /\ op.fbgen /\ NoRecordAtAll(op.phrase)) =>
    LET tokens == Tokenize(op.phrase)
    IN  /\ \A L \in RequestedLabels(op.name) :
             IF tokens = <<>> THEN ~DictHas(ret, L)
             ELSE LET at == FocusPlace(L, tokens)
                  IN  /\ DictHas(ret, L)
                      /\ DictGet(ret, L) =
                           <<Join([tokens EXCEPT ![at] = Heuristic(L, tokens[at])], " ")>>
        /\ DictKeys(ret) \cap ProvenanceKeys = {}
        /\ DictGet(ret, o_key) = Canonical(op.phrase)

\* Inflect with fallback was called with two unknown words on a store that holds records and
\* pluralised the last one by the f rule
C10_Witness ==
  /\ InflectReturned /\ op.fbgen /\ op.name = "Inflect" /\ op.phrase = P_zy_fe
  /\ DOMAIN word_dict # {}
  /\ NoRecordAtAll(op.phrase)
  /\ DictGet(ret, np) = <<<<"z", "y", " ", "v", "e", "s">>>>
  /\ DictGet(ret, vs) = <<<<"z", "i", "e", "s", " ", "f", "e">>>>

(***************************************************************************)
(* C11                                                                     *)
(***************************************************************************)
\* C11: whatever change a caller makes to the value LookupPhraseInfo returned (keys added or
\* deleted, form lists appended to, overwritten or shortened), the store is left as it was, so
\* that later calls answer as before the change: the step of the caller changes neither
\* word_dict nor index, nor what LookupPhraseInfo and Search return for any phrase.
C11_DefensiveCopy ==
  [][(pc = "returned" /\ pc' = "mutated") =>
       /\ word_dict' = word_dict
       /\ index' = index
       /\ \A phrase \in Phrases :
            /\ LookupPhraseInfo(phrase)' = LookupPhraseInfo(phrase)
            /\ Search(phrase)' = Search(phrase)]_vars

(***************************************************************************)
(* C12                                                                     *)
(***************************************************************************)
\* C12: once the load is complete, no Inflect*, Search or LookupPhraseInfo call, whatever its
\* arguments and whatever calls came before it, changes the base-form map or the index: every
\* step that makes such a call, and every step that takes its result, leaves both as they were.
C12_StoreImmutable ==
  [][(pc \in {"ready", "returned"} /\ pc' \in {"ready", "returned"}) =>
       (word_dict' = word_dict /\ index' = index)]_vars

\* Search has returned for a phrase of several tokens that the index knows nothing of, neither
\* as a whole nor by any token, and the index, which is not empty, has no entry for them
C12_Witness ==
  /\ SearchReturned
  /\ Len(Tokenize(op.phrase)) > 1
  /\ DOMAIN index # {}
  /\ Canonical(op.phrase) \notin DOMAIN index
  /\ \A k \in 1..Len(Tokenize(op.phrase)) : Tokenize(op.phrase)[k] \notin DOMAIN index

(***************************************************************************)
(* C13                                                                     *)
(***************************************************************************)
Loaded == pc \in {"ready", "returned"}

\* C13: after the load of any source, for every record, every label of the record and every
\* surface string of the label's list, the index entry of the string contains the record's base.
C13_FormsIndexed ==
  Loaded =>
    \A B \in DOMAIN word_dict : \A L \in RecordLabels(word_dict[B]) :
      \A j \in 1..Len(DictGet(word_dict[B], L)) :
        InSeq(B, IndexGet(DictGet(word_dict[B], L)[j]))

\* a load has completed with a record that lists two different forms under one label, both indexed
C13_Witness ==
  /\ pc = "ready"
  /\ \E B \in DOMAIN word_dict : \E L \in RecordLabels(word_dict[B]) :
       LET value == DictGet(word_dict[B], L)
       IN  /\ Len(value) >= 2
           /\ value[1] # value[2]
           /\ InSeq(B, IndexGet(value[1]))
           /\ InSeq(B, IndexGet(value[2]))

(***************************************************************************)
(* C14                                                                     *)
(***************************************************************************)
\* C14: the load completes without raising whatever the lines of the source hold; in particular
\* an occurrence-cost field whose value is not a number is skipped on its own.
C14_LoadNeverRaises == pc # "failed"

(***************************************************************************)
(* C15                                                                     *)
(***************************************************************************)
\* C15: loading the same well-formed source a second time, in a process whose sets iterate in
\* either order, gives a store equal to the first in every record, key order, index entry and
\* list order, so that every query is answered the same by both.
C15_LoadIdempotent ==
  pc = "ready" =>
    \A hash_order \in HashOrders :
      LET second == Load(source, hash_order)
      IN  ~second.raised /\ second.word_dict = word_dict /\ second.index = index

\* a source of two lines has been loaded, one of which lists several forms under a label
C15_Witness ==
  /\ pc = "ready"
  /\ Len(source) = 2
  /\ \E B \in DOMAIN word_dict : \E L \in RecordLabels(word_dict[B]) :
       Cardinality({DictGet(word_dict[B], L)[j] : j \in 1..Len(DictGet(word_dict[B], L))}) >= 3
  /\ Load(source, "descending").index = index
  /\ Load(source, "ascending").index = index

(***************************************************************************)
(* C16                                                                     *)
(***************************************************************************)
\* an Inflect* result: the canonical phrase first under "o", then requested labels with
\* non-empty lists and provenance keys, and nothing else
WellFormedInflect ==
  /\ Len(ret) >= 1
  /\ ret[1] = <<o_key, Canonical(op.phrase)>>
  /\ DictKeys(ret) \subseteq ({o_key, ph_key, pi_key, th_key} \cup RequestedLabels(op.name))
  /\ \A L \in DictKeys(ret) \cap (RequestedLabels(op.name) \cup {ph_key, th_key}) :
       DictGet(ret, L) # <<>>
\* a Search result: candidates with a base, a positive cost and a list of labels of the cost table
WellFormedSearch ==
  \A n \in 1..Len(ret) :
    /\ DOMAIN ret[n] = {"base", "cost", "labels"}
    /\ ret[n].cost > 0
    /\ \A k \in 1..Len(ret[n].labels) : ret[n].labels[k] \in DOMAIN _inflection_costs \cup {o_key}
\* a LookupPhraseInfo result: None, or a non-empty attribute map
WellFormedLookup == ret.found \in BOOLEAN /\ (ret.found <=> ret.attrs # <<>>)
\* a generated form: the word, or the word less its ending, followed by a suffix
WellFormedGenerated == Len(ret) >= 1 /\ Len(ret) + 2 >= Len(op.phrase) /\ Len(ret) <= Len(op.phrase) + 4

\* every call returns a result of the documented shape
WellFormedResult ==
  /\ InflectReturned => WellFormedInflect
  /\ SearchReturned => WellFormedSearch
  /\ (pc = "returned" /\ op.name = "LookupPhraseInfo") => WellFormedLookup
  /\ pc = "generated" => WellFormedGenerated

\* the result holds none of the labels the operation asked for
NoCategory == DictKeys(ret) \cap RequestedLabels(op.name) = {}
OnlyOriginal == ret = <<<<o_key, Canonical(op.phrase)>>>>

\* C16 as stated: every call returns a well-formed result, and an Inflect* call on a phrase with
\* no tokens or with no resolvable category returns the canonical original phrase and nothing else.
C16_Original ==
  /\ WellFormedResult
  /\ (InflectReturned /\ (Tokenize(op.phrase) = <<>> \/ NoCategory)) => OnlyOriginal

\* C16 amended: every call returns a well-formed result; an Inflect* call on a phrase with no
\* tokens returns the canonical original phrase and nothing else, and one that resolves no
\* category returns the canonical original phrase and, when the phrase has a record with a
\* non-zero occurrence cost, that cost under "_pi", and nothing else.
C16_Total ==
  /\ WellFormedResult
  /\ (InflectReturned /\ Tokenize(op.phrase) = <<>>) => OnlyOriginal
  /\ (InflectReturned /\ NoCategory) =>
       IF IdfTruthy(WordAttrs(Canonical(op.phrase)))
       THEN ret = <<<<o_key, Canonical(op.phrase)>>,
                    <<pi_key, DictGet(WordAttrs(Canonical(op.phrase)), i_key)>>>>
       ELSE OnlyOriginal

\* Inflect with fallback generation has returned for a phrase made of punctuation only
C16_Witness ==
  /\ pc = "returned" /\ op.name = "Inflect" /\ op.fbgen
  /\ op.phrase = P_hyphen
  /\ DOMAIN word_dict # {}
  /\ OnlyOriginal

(***************************************************************************)
(* C17 .. C20: the rules of the suffix heuristics                          *)
(***************************************************************************)
\* a word: a string without white space
IsWord(word) == \A k \in 1..Len(word) : word[k] \notin Whitespace
\* the word ends, case-insensitively, in the given letters
HasEnding(word, ending) ==
  /\ Len(word) >= Len(ending)
  /\ \A j \in 1..Len(ending) : Lower(word[Len(word) - Len(ending) + j]) = ending[j]
\* the word ends in a vowel followed by y
HasVowelYEnding(word) ==
  Len(word) >= 2 /\ IsVowel(word[Len(word) - 1]) /\ HasEnding(word, <<"y">>)
\* the number of vowels that stand directly before the last character
RECURSIVE VowelsBefore(_, _)
VowelsBefore(word, k) ==
  IF k >= 1 /\ IsVowel(word[k]) THEN 1 + VowelsBefore(word, k - 1) ELSE 0
\* the last character is not a vowel, y or x
HasConsonantEnding(word) ==
  word # <<>> /\ Lower(word[Len(word)]) \notin {"a", "e", "i", "o", "u", "y", "x"}
HasLongVowelConsonantEnding(word) ==
  HasConsonantEnding(word) /\ VowelsBefore(word, Len(word) - 1) >= 2
HasShortVowelConsonantEnding(word) ==
  HasConsonantEnding(word) /\ VowelsBefore(word, Len(word) - 1) = 1

GeneratorReturned(generator) ==
  pc = "generated" /\ op.name = generator /\ IsWord(op.phrase)

\* the rules of NounPlural, in their documented order
NounPluralRule(word) ==
  IF HasEnding(word, <<"f", "e">>) THEN DropLast(word, 2) \o <<"v", "e", "s">>
  ELSE IF HasEnding(word, <<"f">>) THEN DropLast(word, 1) \o <<"v", "e", "s">>
  ELSE IF \E ending \in {<<"o">>, <<"s">>, <<"c", "h">>, <<"s", "h">>, <<"x">>} :
            HasEnding(word, ending)
    THEN word \o <<"e", "s">>
  ELSE IF HasVowelYEnding(word) THEN word \o <<"s">>
  ELSE IF HasEnding(word, <<"y">>) THEN DropLast(word, 1) \o <<"i", "e", "s">>
  ELSE word \o <<"s">>

\* C17: for every word, NounPlural returns the result of the first matching rule in the order
\* f or fe -> ves; o, s, ch, sh or x -> + es; vowel + y -> + s; y -> drop y, + ies; else + s
\* (box -> boxes, city -> cities, knife -> knives).
C17_NounPluralRules ==
  GeneratorReturned("GenerateNounPlural") =>
    /\ ret = NounPluralRule(op.phrase)
    /\ op.phrase = W_box => ret = <<"b", "o", "x", "e", "s">>
    /\ op.phrase = W_city => ret = <<"c", "i", "t", "i", "e", "s">>
    /\ op.phrase = W_knife => ret = <<"k", "n", "i", "v", "e", "s">>

\* NounPlural has returned cities for city
C17_Witness ==
  /\ GeneratorReturned("GenerateNounPlural")
  /\ op.phrase = W_city
  /\ ret = <<"c", "i", "t", "i", "e", "s">>

\* the rules of VerbPresentParticiple, in their documented order
VerbPresentParticipleRule(word) ==
  IF HasEnding(word, <<"i", "e">>) THEN DropLast(word, 2) \o <<"y", "i", "n", "g">>
  ELSE IF HasEnding(word, <<"e">>) THEN DropLast(word, 1) \o <<"i", "n", "g">>
  ELSE IF HasLongVowelConsonantEnding(word) THEN word \o <<"i", "n", "g">>
  ELSE IF HasShortVowelConsonantEnding(word)
    THEN word \o <<word[Len(word)]>> \o <<"i", "n", "g">>
  ELSE word \o <<"i", "n", "g">>

\* C18: for every word, VerbPresentParticiple returns the result of the first matching rule in
\* the order ie -> drop ie, + ying; e -> drop e, + ing; two or more vowels and a character that
\* is not a vowel, y or x -> + ing; exactly one vowel and such a character -> + last character
\* + ing; else + ing (run -> running, smile -> smiling).
C18_PresentParticipleRules ==
  GeneratorReturned("GenerateVerbPresentParticiple") =>
    /\ ret = VerbPresentParticipleRule(op.phrase)
    /\ op.phrase = W_run => ret = <<"r", "u", "n", "n", "i", "n", "g">>
    /\ op.phrase = W_smile => ret = <<"s", "m", "i", "l", "i", "n", "g">>

\* VerbPresentParticiple has returned running for run
C18_Witness ==
  /\ GeneratorReturned("GenerateVerbPresentParticiple")
  /\ op.phrase = W_run
  /\ ret = <<"r", "u", "n", "n", "i", "n", "g">>

\* the rules of VerbPast, in their documented order
VerbPastRule(word) ==
  IF HasVowelYEnding(word) THEN word \o <<"e", "d">>
  ELSE IF HasEnding(word, <<"y">>) THEN DropLast(word, 1) \o <<"i", "e", "d">>
  ELSE IF HasLongVowelConsonantEnding(word) THEN word \o <<"e", "d">>
  ELSE IF HasShortVowelConsonantEnding(word) THEN word \o <<word[Len(word)]>> \o <<"e", "d">>
  ELSE IF HasEnding(word, <<"e">>) THEN word \o <<"d">>
  ELSE word \o <<"e", "d">>

\* C19: for every word, VerbPast returns the result of the first matching rule in the order
\* vowel + y -> + ed; y -> drop y, + ied; long-vowel-consonant -> + ed; short-vowel-consonant
\* -> + last character + ed; e -> + d; else + ed (play -> played, cry -> cried).
C19_PastRules ==
  GeneratorReturned("GenerateVerbPast") =>
    /\ ret = VerbPastRule(op.phrase)
    /\ op.phrase = W_play => ret = <<"p", "l", "a", "y", "e", "d">>
    /\ op.phrase = W_cry => ret = <<"c", "r", "i", "e", "d">>

\* VerbPast has returned cried for cry
C19_Witness ==
  /\ GeneratorReturned("GenerateVerbPast")
  /\ op.phrase = W_cry
  /\ ret = <<"c", "r", "i", "e", "d">>

\* the form with its final d replaced by the given letters
ReplaceFinalD(form, letters) == DropLast(form, 1) \o letters

\* C20: for every word w, AdjectiveComparative(w) is VerbPast(w) with its final d replaced by r
\* and AdjectiveSuperlative(w) is VerbPast(w) with its final d replaced by st (tall -> taller,
\* happy -> happier, and a word ending in e gains only r / st).
C20_AdjectiveLikePast ==
  /\ GeneratorReturned("GenerateAdjectiveComparative") =>
       /\ GenerateVerbPast(op.phrase)[Len(GenerateVerbPast(op.phrase))] = "d"
       /\ ret = ReplaceFinalD(GenerateVerbPast(op.phrase), <<"r">>)
       /\ op.phrase = W_tall => ret = <<"t", "a", "l", "l", "e", "r">>
       /\ op.phrase = W_happy => ret = <<"h", "a", "p", "p", "i", "e", "r">>
       /\ HasEnding(op.phrase, <<"e">>) => ret = op.phrase \o <<"r">>
  /\ GeneratorReturned("GenerateAdjectiveSuperative") =>
       /\ GenerateVerbPast(op.phrase)[Len(GenerateVerbPast(op.phrase))] = "d"
       /\ ret = ReplaceFinalD(GenerateVerbPast(op.phrase), <<"s", "t">>)
       /\ HasEnding(op.phrase, <<"e">>) => ret = op.phrase \o <<"s", "t">>

\* AdjectiveComparative has returned happier for happy
C20_Witness ==
  /\ GeneratorReturned("GenerateAdjectiveComparative")
  /\ op.phrase = W_happy
  /\ ret = <<"h", "a", "p", "p", "i", "e", "r">>

(***************************************************************************)
(* C21, C22: relations between the suffix heuristics                       *)
(***************************************************************************)
\* C21: for every word, VerbPastParticiple = VerbPast, AdverbComparative = AdjectiveComparative
\* and AdverbSuperlative = AdjectiveSuperlative; VerbSingular = NounPlural for every word that
\* does not end in f or fe.
C21_Aliases ==
  /\ GeneratorReturned("GenerateVerbPastParticiple") => ret = GenerateVerbPast(op.phrase)
  /\ GeneratorReturned("GenerateAdverbComparative") =>
       ret = GenerateAdjectiveComparative(op.phrase)
  /\ GeneratorReturned("GenerateAdverbSuperative") =>
       ret = GenerateAdjectiveSuperative(op.phrase)
  /\ (/\ GeneratorReturned("GenerateVerbSingular")
      /\ ~HasEnding(op.phrase, <<"f">>)
      /\ ~HasEnding(op.phrase, <<"f", "e">>)) => ret = GenerateNounPlural(op.phrase)

\* VerbSingular has returned plays for play
C21_Witness ==
  /\ GeneratorReturned("GenerateVerbSingular")
  /\ op.phrase = W_play
  /\ ret = <<"p", "l", "a", "y", "s">>
  /\ ret = GenerateNounPlural(op.phrase)

\* str.lower() of a character and of a word
ToLower(c) ==
  CASE c = "A" -> "a" [] c = "E" -> "e" [] c = "F" -> "f" [] c = "S" -> "s"
    [] c = "T" -> "t" [] c = "Y" -> "y" [] OTHER -> c
LowerWord(word) == [k \in 1..Len(word) |-> ToLower(word[k])]
\* the two texts agree, case aside, on their first k characters
SameUpTo(a, b, k) ==
  k <= Len(a) /\ k <= Len(b) /\ \A j \in 1..k : ToLower(a[j]) = ToLower(b[j])

\* C22: for every heuristic and every word, the rule depends only on the lower-cased word (the
\* lower-cased result is the result for the lower-cased word), and every character of the
\* input that the rule keeps stands in the output at its position with its case unchanged.
C22_CaseInsensitive ==
  (pc = "generated" /\ IsWord(op.phrase)) =>
    /\ LowerWord(ret) = Generate(op.name, LowerWord(op.phrase))
    /\ \A k \in 1..Len(op.phrase) : SameUpTo(op.phrase, ret, k) => ret[k] = op.phrase[k]

\* a suffix rule that drops a letter has been applied to a word in upper case
C22_Witness ==
  /\ GeneratorReturned("GenerateNounPlural")
  /\ op.phrase = <<"T", "Y">>
  /\ ret = <<"T", "i", "e", "s">>

(***************************************************************************)
(* C23: the examples and the count of a Word                               *)
(***************************************************************************)
\* the sentences of the add_example calls, in call order
RECURSIVE AddedSentences(_)
AddedSentences(history) ==
  IF history = <<>> THEN <<>>
  ELSE IF history[1].name = "add_example"
    THEN <<history[1].example>> \o AddedSentences(Tail(history))
  ELSE AddedSentences(Tail(history))
\* the distinct elements of a list, in the order of their first occurrence
RECURSIVE FirstOccurrences(_, _)
FirstOccurrences(list, seen) ==
  IF list = <<>> THEN seen
  ELSE FirstOccurrences(Tail(list),
                        IF \E k \in 1..Len(seen) : seen[k] = list[1] THEN seen
                        ELSE Append(seen, list[1]))
\* the number of increment_count calls
IncrementCalls(history) == Cardinality({k \in 1..Len(history) : history[k].name = "increment_count"})

C30_BaseFormTotal == pc = "based" => ~base_form.raised

(***************************************************************************)
(* C24 .. C29: token-level resolution, the index and the candidates        *)
(***************************************************************************)
\* the label is in the phrase-sourced / token-sourced provenance list of the result
PhraseSourced(L) == DictHas(ret, ph_key) /\ InSeq(L, DictGet(ret, ph_key))
TokenSourced(L) == DictHas(ret, th_key) /\ InSeq(L, DictGet(ret, th_key))

\* C24: in every Inflect* result, no label is in both the phrase-sourced and the token-sourced
\* provenance list, and the list of a phrase-sourced label is the list of the record of the
\* phrase, not replaced by token-level store forms or by a generated form.
C24_TokenLevelOnlyUnsatisfied ==
  InflectReturned =>
    \A L \in RequestedLabels(op.name) :
      PhraseSourced(L) =>
        /\ ~TokenSourced(L)
        /\ DictGet(ret, L) = DictGet(WordAttrs(Canonical(op.phrase)), L)

\* the phrases made of the tokens with the token at the given place replaced by each form
Substituted(tokens, at, forms) ==
  [k \in 1..Len(forms) |-> Join([tokens EXCEPT ![at] = forms[k]], " ")]
\* the label is not satisfied by the record of the whole phrase and the focus token has it
FocusTokenHasLabel(L, phrase) ==
  LET tokens == Tokenize(phrase)
  IN  /\ tokens # <<>>
      /\ ~HasLabel(WordAttrs(Canonical(phrase)), L)
      /\ HasLabel(WordAttrs(tokens[FocusPlace(L, tokens)]), L)

\* C25: a label resolved at the token level from the store is recorded as token-sourced, and
\* the list of a token-sourced label has one phrase per stored form of the focus token, in
\* stored order, each the canonical token list with only the focus position replaced by the
\* form; the focus is the last token for np, avc, avs and the first for the other labels.
C25_TokenSubstitution ==
  InflectReturned =>
    \A L \in RequestedLabels(op.name) :
      LET tokens == Tokenize(op.phrase)
      IN  /\ FocusTokenHasLabel(L, op.phrase) => TokenSourced(L)
          /\ TokenSourced(L) =>
               /\ tokens # <<>>
               /\ DictGet(ret, L) =
                    Substituted(tokens, FocusPlace(L, tokens),
                                DictGet(WordAttrs(tokens[FocusPlace(L, tokens)]), L))

\* a phrase of two tokens was inflected from two stored forms of its first token
C25_Witness ==
  /\ InflectReturned
  /\ Len(Tokenize(op.phrase)) = 2
  /\ \E L \in RequestedLabels(op.name) :
       /\ TokenSourced(L)
       /\ FocusPlace(L, Tokenize(op.phrase)) = 1
       /\ Len(DictGet(ret, L)) = 2

\* C26: for any loaded source, every candidate of a Search result other than the "original"
\* one has a non-empty matchedLabels list: the base it was reached through has a label whose
\* stored list holds the phrase or token looked up.
C26_ReachedBaseMatches ==
  SearchReturned =>
    \A n \in 1..Len(ret) : ret[n].labels # <<o_key>> => ret[n].labels # <<>>

\* the forms the records hold under a recognized category label (every label of the cost
\* table but the reserved a)
CategoryForms ==
  UNION {{DictGet(word_dict[bl[1]], bl[2])[k] : k \in 1..Len(DictGet(word_dict[bl[1]], bl[2]))} :
           bl \in {x \in (DOMAIN word_dict) \X ((DOMAIN _inflection_costs) \ {a_label}) :
                     DictHas(word_dict[x[1]], x[2])}}

\* C27: a field with the reserved label a adds nothing to the inverted index, never makes a
\* base reachable by Search, is never in a candidate's matchedLabels and is never emitted by
\* an Inflect operation.
C27_ReservedLabelUnused ==
  /\ Loaded => \A base \in DOMAIN word_dict :
       DictHas(word_dict[base], a_label) =>
         \A k \in 1..Len(DictGet(word_dict[base], a_label)) :
           LET form == DictGet(word_dict[base], a_label)[k]
           IN  form \in DOMAIN index => form \in CategoryForms
  /\ SearchReturned => \A n \in 1..Len(ret) : ~InSeq(a_label, ret[n].labels)
  /\ InflectReturned => ~DictHas(ret, a_label)

\* C28: LookupPhraseInfo(phrase) returns the absence signal exactly when no loaded record has
\* the phrase as its key; for a loaded base, also one whose record holds no recognized entry,
\* it returns the attribute map of the record.
C28_LookupAbsentIffNoRecord ==
  (pc = "returned" /\ op.name = "LookupPhraseInfo") =>
    /\ ret.found <=> HasRecord(op.phrase)
    /\ HasRecord(op.phrase) => ret.attrs = word_dict[op.phrase]

\* C29: no two entries of a Search result have the same candidate string, and the searched
\* canonical phrase appears at most once, only as the "original" candidate.
C29_CandidatesUnique ==
  SearchReturned =>
    /\ \A m, n \in 1..Len(ret) : ret[m].base = ret[n].base => m = n
    /\ \A n \in 1..Len(ret) : ret[n].base = Canonical(op.phrase) => ret[n].labels = <<o_key>>

\* the index lists a base twice for the searched phrase and the result holds it once
C29_Witness ==
  /\ SearchReturned
  /\ \E j, k \in 1..Len(IndexGet(Canonical(op.phrase))) :
       j # k /\ IndexGet(Canonical(op.phrase))[j] = IndexGet(Canonical(op.phrase))[k]
  /\ Len(ret) = 1
  /\ ret[1].labels # <<o_key>>

====
